---- MODULE Spec2Model ----
(***************************************************************************)
(* A model of python_fsa.automaton.StateMachine: one automaton object      *)
(* (its table fsa, its current state, its accept flag, its is_min flag)    *)
(* and the operations that act on it.                                      *)
(*                                                                         *)
(* Representation of the Python values:                                    *)
(*   str            a sequence of one-character strings, <<"S","0">>       *)
(*   input symbol   PyInt(k) or PyStr(s): an int and a str never compare   *)
(*                  equal, as in Python                                    *)
(*   dict           a sequence of entries in insertion order               *)
(*   row            [trans, start, accept]; trans is the sequence of the   *)
(*                  row's symbol entries in insertion order                *)
(*   target         [list |-> FALSE, names |-> <<n>>] for a single state   *)
(*                  name, [list |-> TRUE, names |-> ns] for a list         *)
(***************************************************************************)
EXTENDS Integers, Sequences, FiniteSets, TLC

VARIABLES
    fsa,      \* self.fsa
    state,    \* self.state
    accept,   \* self.accept
    is_min,   \* self.is_min
    err,      \* the exception the last operation raised, NoError if it returned
    op,       \* the last operation and its arguments
    pre,      \* the object's fields, and the operation before, when the last
              \* operation was called
    origin,   \* how the object was constructed
    calls,    \* the number of operations performed on the object
    returned, \* every operation so far returned normally
    mem,      \* the dict objects of the caller's definition and of self.fsa,
              \* where the model follows them (NoMemory where it does not)
    result,   \* the dict the last operation returned, NoResult when it
              \* returned self or raised
    frame     \* the local variables of a minimize() that is running, where
              \* the model follows its loops (NoFrame where it does not)

vars == <<fsa, state, accept, is_min, err, op, pre, origin, calls, returned, mem, result,
          frame>>

(***************************************************************************)
(* Python strings and integers                                             *)
(***************************************************************************)
Digits == <<"0", "1", "2", "3", "4", "5", "6", "7", "8", "9">>

IsDigit(c) == \E d \in DOMAIN Digits : Digits[d] = c

DigitVal(c) == (CHOOSE d \in DOMAIN Digits : Digits[d] = c) - 1

\* str(n) for an int n >= 0
RECURSIVE IntToStr(_)
IntToStr(n) ==
    IF n < Len(Digits) THEN <<Digits[n + 1]>>
    ELSE IntToStr(n \div Len(Digits)) \o <<Digits[(n % Len(Digits)) + 1]>>

\* Characters for which str.isdigit() is true and that int() rejects, such as
\* U+00B2 SUPERSCRIPT TWO, written here "sup2"
SuperscriptDigits == {"sup2"}

\* s.isdigit()
isdigit(s) == Len(s) > 0 /\ \A i \in DOMAIN s : IsDigit(s[i]) \/ s[i] \in SuperscriptDigits

\* int(s) returns for a string of decimal digits and raises ValueError for
\* the other strings
isdecimal(s) == Len(s) > 0 /\ \A i \in DOMAIN s : IsDigit(s[i])

\* int(s) for a string of digits
RECURSIVE StrToInt(_)
StrToInt(s) ==
    IF s = <<>> THEN 0
    ELSE Len(Digits) * StrToInt(SubSeq(s, 1, Len(s) - 1)) + DigitVal(s[Len(s)])

\* f"S{i}"
SName(i) == <<"S">> \o IntToStr(i)

PyInt(k) == [t |-> "int", n |-> k, s |-> <<>>]
PyStr(s) == [t |-> "str", n |-> 0, s |-> s]

\* str(symbol)
str(symbol) == IF symbol.t = "int" THEN IntToStr(symbol.n) ELSE symbol.s

START == <<"s", "t", "a", "r", "t">>
ACCEPT == <<"a", "c", "c", "e", "p", "t">>

\* The bool a row stores under "start" or "accept", when it is read as a
\* transition target and stored in self.state.
PyBool(b) == IF b THEN <<"True">> ELSE <<"False">>

Single(n) == [list |-> FALSE, names |-> <<n>>]
List(ns) == [list |-> TRUE, names |-> ns]

(***************************************************************************)
(* Exceptions                                                              *)
(***************************************************************************)
NoError == [kind |-> "none", state |-> <<>>, symbol |-> <<>>]
\* no dict returned
NoResult == <<>>
\* no minimize() running
NoFrame == [pc |-> "none"]
Raise(kind) == [kind |-> kind, state |-> <<>>, symbol |-> <<>>]
InvalidStateError(name) == [kind |-> "InvalidStateError", state |-> name, symbol |-> <<>>]
InvalidTransitionError(from_state, input_symbol) ==
    [kind |-> "InvalidTransitionError", state |-> from_state, symbol |-> input_symbol]

(***************************************************************************)
(* The table: a dict from state name to row                                *)
(***************************************************************************)
Keys(f) == {f[i].name : i \in DOMAIN f}

Index(f, k) == CHOOSE i \in DOMAIN f : f[i].name = k

Row(f, k) == f[Index(f, k)].row

Symbols(row) == {row.trans[i].sym : i \in DOMAIN row.trans}

Target(row, sym) == row.trans[CHOOSE i \in DOMAIN row.trans : row.trans[i].sym = sym].tgt

\* key in row: the row's dict holds its symbols and "start" and "accept"
RowIn(row, key) == key \in Symbols(row) \/ key \in {PyStr(START), PyStr(ACCEPT)}

\* row[key]
RowGet(row, key) ==
    IF key = PyStr(START) THEN Single(PyBool(row.start))
    ELSE IF key = PyStr(ACCEPT) THEN Single(PyBool(row.accept))
    ELSE Target(row, key)

\* every state name a row's transitions mention
RowTargets(row) == UNION {{row.trans[i].tgt.names[k] : k \in DOMAIN row.trans[i].tgt.names}
                           : i \in DOMAIN row.trans}

\* Rewriting without lines 344-345: a list target is left as it is. C20
\* must tell it apart.
MapTarget_SinglesOnly(tgt, m) ==
    IF tgt.list THEN tgt ELSE [tgt EXCEPT !.names = <<m[tgt.names[1]]>>]

\* a target with every state name n replaced by m[n]
MapTarget(tgt, m) == [tgt EXCEPT !.names = [k \in DOMAIN tgt.names |-> m[tgt.names[k]]]]

MapRow(row, m) ==
    [row EXCEPT !.trans = [i \in DOMAIN row.trans |->
                              [row.trans[i] EXCEPT !.tgt = MapTarget(row.trans[i].tgt, m)]]]

(***************************************************************************)
(* _normalize                                                              *)
(***************************************************************************)
\* the sort key of line 328: int(key[1:]) if key[1:].isdigit() else inf;
\* bad when int() raises ValueError
SortKey(key) ==
    LET rest == SubSeq(key, 2, Len(key))
    IN  IF ~isdigit(rest) THEN [inf |-> TRUE, n |-> 0, bad |-> FALSE]
        ELSE IF ~isdecimal(rest) THEN [inf |-> FALSE, n |-> 0, bad |-> TRUE]
        ELSE [inf |-> FALSE, n |-> StrToInt(rest), bad |-> FALSE]

KeyLess(a, b) == ~a.inf /\ (b.inf \/ a.n < b.n)

\* The position in sorted(f, key=SortKey, reverse=True). C18 must tell it
\* apart.
Rank_Descending(f, i) ==
    Cardinality({j \in DOMAIN f :
        \/ KeyLess(SortKey(f[i].name), SortKey(f[j].name))
        \/ (~KeyLess(SortKey(f[j].name), SortKey(f[i].name)) /\ j < i)})

\* the position of f[i].name in sorted(f, key=SortKey); sorted() is stable
Rank(f, i) ==
    Cardinality({j \in DOMAIN f :
        \/ KeyLess(SortKey(f[j].name), SortKey(f[i].name))
        \/ (~KeyLess(SortKey(f[i].name), SortKey(f[j].name)) /\ j < i)})

name_mapping(f) == [k \in Keys(f) |-> SName(Rank(f, Index(f, k)))]

\* The table renamed and the current state left under its old name. C35
\* must tell it apart.
normalize_KeepState(f, s) ==
    LET m == name_mapping(f)
        new_fsa == [i \in DOMAIN f |-> [name |-> m[f[i].name], row |-> MapRow(f[i].row, m)]]
    IN  IF \E i \in DOMAIN f : SortKey(f[i].name).bad
        THEN [fsa |-> f, state |-> s, err |-> Raise("ValueError")]
        ELSE IF \E i \in DOMAIN f : ~(RowTargets(f[i].row) \subseteq Keys(f))
        THEN [fsa |-> f, state |-> s, err |-> Raise("KeyError")]
        ELSE [fsa |-> new_fsa, state |-> s, err |-> NoError]

\* The result of self._normalize() on table f and current state s:
\* the new table, the new current state and the exception raised, if any.
\* sorted() raises ValueError when a sort key does (nothing is assigned yet);
\* name_mapping[v] raises KeyError for a target v that is no key (the table
\* is then not yet replaced); name_mapping[self.state] raises KeyError for a
\* current state that is no key (the table is then already replaced).
_normalize(f, s) ==
    LET m == name_mapping(f)
        new_fsa == [i \in DOMAIN f |-> [name |-> m[f[i].name], row |-> MapRow(f[i].row, m)]]
    IN  IF \E i \in DOMAIN f : SortKey(f[i].name).bad
        THEN [fsa |-> f, state |-> s, err |-> Raise("ValueError")]
        ELSE IF \E i \in DOMAIN f : ~(RowTargets(f[i].row) \subseteq Keys(f))
        THEN [fsa |-> f, state |-> s, err |-> Raise("KeyError")]
        ELSE IF s \notin Keys(f)
        THEN [fsa |-> new_fsa, state |-> s, err |-> Raise("KeyError")]
        ELSE [fsa |-> new_fsa, state |-> m[s], err |-> NoError]

(***************************************************************************)
(* __call__                                                                *)
(***************************************************************************)
\* The lookup without the second test of lines 153-154: str(symbol) is not
\* tried. C26 must tell it apart.
symbol_key_ExactOnly(row, symbol) == IF RowIn(row, symbol) THEN <<symbol>> ELSE <<>>

\* lines 151-158: the key under which the symbol is found in the row, as a
\* sequence of zero or one keys
symbol_key(row, symbol) ==
    IF RowIn(row, symbol) THEN <<symbol>>
    ELSE IF RowIn(row, PyStr(str(symbol))) THEN <<PyStr(str(symbol))>>
    ELSE <<>>

\* Feed with the undefined-symbol test of lines 155-158 left out: a symbol
\* the current state does not define is passed over. C8 must tell it apart.
RECURSIVE Feed_SkipUndefined(_, _, _)
Feed_SkipUndefined(f, s, inputs) ==
    IF inputs = <<>> THEN [state |-> s, err |-> NoError]
    ELSE IF s \notin Keys(f) THEN [state |-> s, err |-> Raise("KeyError")]
    ELSE LET symbol == Head(inputs)
             key == symbol_key(Row(f, s), symbol)
         IN  IF key = <<>>
             THEN Feed_SkipUndefined(f, s, Tail(inputs))
             ELSE LET next_state == RowGet(Row(f, s), key[1])
                  IN  IF next_state.list /\ Len(next_state.names) # 1
                      THEN [state |-> s, err |-> Raise("FSAError")]
                      ELSE Feed_SkipUndefined(f, next_state.names[1], Tail(inputs))

\* Feed with the length test of line 165 left out: the first member of any
\* non-empty list is followed. C10 must tell it apart.
RECURSIVE Feed_FirstOfList(_, _, _)
Feed_FirstOfList(f, s, inputs) ==
    IF inputs = <<>> THEN [state |-> s, err |-> NoError]
    ELSE IF s \notin Keys(f) THEN [state |-> s, err |-> Raise("KeyError")]
    ELSE LET symbol == Head(inputs)
             key == symbol_key(Row(f, s), symbol)
         IN  IF key = <<>>
             THEN [state |-> s, err |-> InvalidTransitionError(s, str(symbol))]
             ELSE LET next_state == RowGet(Row(f, s), key[1])
                  IN  IF next_state.list /\ Len(next_state.names) = 0
                      THEN [state |-> s, err |-> Raise("FSAError")]
                      ELSE Feed_FirstOfList(f, next_state.names[1], Tail(inputs))

\* lines 149-172: the loop over the flattened inputs, from current state s
RECURSIVE Feed(_, _, _)
Feed(f, s, inputs) ==
    IF inputs = <<>> THEN [state |-> s, err |-> NoError]
    ELSE IF s \notin Keys(f) THEN [state |-> s, err |-> Raise("KeyError")]
    ELSE LET symbol == Head(inputs)
             key == symbol_key(Row(f, s), symbol)
         IN  IF key = <<>>
             THEN [state |-> s, err |-> InvalidTransitionError(s, str(symbol))]
             ELSE LET next_state == RowGet(Row(f, s), key[1])
                  IN  IF next_state.list /\ Len(next_state.names) # 1
                      THEN [state |-> s, err |-> Raise("FSAError")]
                      ELSE Feed(f, next_state.names[1], Tail(inputs))

\* Call with line 175 moved into a finally clause: accept is refreshed from
\* the current row on the error paths too. C7 must tell it apart.
Call_RefreshOnError(f, s, a, inputs) ==
    LET r == Feed(f, s, inputs)
    IN  IF r.state \notin Keys(f)
        THEN [state |-> r.state, accept |-> a,
              err |-> IF r.err # NoError THEN r.err ELSE Raise("KeyError")]
        ELSE [state |-> r.state, accept |-> Row(f, r.state).accept, err |-> r.err]

\* The result of self(*inputs): lines 149-176. accept is assigned only when
\* the loop ends without an exception and self.fsa[self.state] exists.
Call(f, s, a, inputs) ==
    LET r == Feed(f, s, inputs)
    IN  IF r.err # NoError THEN [state |-> r.state, accept |-> a, err |-> r.err]
        ELSE IF r.state \notin Keys(f)
        THEN [state |-> r.state, accept |-> a, err |-> Raise("KeyError")]
        ELSE [state |-> r.state, accept |-> Row(f, r.state).accept, err |-> NoError]

(***************************************************************************)
(* remove_unreachable_states                                               *)
(***************************************************************************)
\* The search stopped after the first state popped: the start set and its
\* direct targets. C4 must tell it apart.
Closure_OneStep(f, seen) ==
    seen \cup UNION {RowTargets(Row(f, k)) : k \in seen \cap Keys(f)}

\* the states the breadth-first search of lines 439-459 pops, starting from
\* the set seen: each popped state that is a key adds its targets
RECURSIVE Closure(_, _)
Closure(f, seen) ==
    LET more == UNION {RowTargets(Row(f, k)) : k \in seen \cap Keys(f)}
    IN  IF more \subseteq seen THEN seen ELSE Closure(f, seen \cup more)

\* The removal followed by a renaming of the states kept to S0, S1, ... in
\* their order. C28 must tell it apart.
remove_AndRenumber(f, s) ==
    LET reachable_states == Closure(f, {s})
        kept == SelectSeq(f, LAMBDA e : e.name \in reachable_states)
    IN  IF ~(reachable_states \subseteq Keys(f))
        THEN [fsa |-> f, err |-> Raise("KeyError")]
        ELSE [fsa |-> _normalize(kept, s).fsa, err |-> NoError]

\* The result of self.remove_unreachable_states(): the search starts at
\* self.state (line 440); self.fsa[current_state] raises KeyError when a
\* popped state is no key, before anything is deleted.
remove_unreachable_states(f, s) ==
    LET reachable_states == Closure(f, {s})
    IN  IF ~(reachable_states \subseteq Keys(f))
        THEN [fsa |-> f, err |-> Raise("KeyError")]
        ELSE [fsa |-> SelectSeq(f, LAMBDA e : e.name \in reachable_states), err |-> NoError]

(***************************************************************************)
(* minimize                                                                *)
(***************************************************************************)
\* int(state_name[1:])
StateIndex(state_name) == StrToInt(SubSeq(state_name, 2, Len(state_name)))

\* lines 492-496
accepting_states(f) == {StateIndex(f[i].name) : i \in {k \in DOMAIN f : f[k].row.accept}}

\* A table that starts with no pair marked. C16 must tell it apart.
initialize_NoMarks(num_states, accepting) ==
    [i \in 0..(num_states - 1) |-> [j \in 0..(num_states - 1) |-> 0]]

\* A table that starts with every pair of different states marked. C33 must
\* tell it apart.
initialize_AllMarks(num_states, accepting) ==
    [i \in 0..(num_states - 1) |-> [j \in 0..(num_states - 1) |->
        IF i # j THEN 1 ELSE 0]]

\* lines 533-541: table[i][j] for i, j in 0..num_states-1
_initialize_minimization_table(num_states, accepting) ==
    [i \in 0..(num_states - 1) |-> [j \in 0..(num_states - 1) |->
        IF i # j /\ ((i \in accepting) # (j \in accepting)) THEN 1 ELSE 0]]

\* a target as line 573-576 resolves it: a list stands for its first element
\* (<<>> when the list is empty, where the code raises IndexError)
FirstOf(tgt) == IF tgt.names = <<>> THEN <<>> ELSE <<tgt.names[1]>>

\* lines 565-584 for one unmarked pair (i, j), from the k-th symbol of row
\* S_i on: "mark" when a symbol leads to a pair marked in old_table, "keep"
\* when none does, "raise" when row S_j lacks the symbol (KeyError) or a
\* target list is empty (IndexError)
RECURSIVE ScanPair(_, _, _, _, _)
ScanPair(f, old_table, i, j, k) ==
    LET row_i == Row(f, SName(i))
        row_j == Row(f, SName(j))
    IN  IF k > Len(row_i.trans) THEN "keep"
        ELSE LET symbol == row_i.trans[k].sym
             IN  IF symbol \notin Symbols(row_j) THEN "raise"
                 ELSE LET state_i_target == FirstOf(row_i.trans[k].tgt)
                          state_j_target == FirstOf(Target(row_j, symbol))
                      IN  IF state_i_target = <<>> \/ state_j_target = <<>> THEN "raise"
                          ELSE IF old_table[StateIndex(state_i_target[1])]
                                           [StateIndex(state_j_target[1])] = 1
                               THEN "mark"
                               ELSE ScanPair(f, old_table, i, j, k + 1)

\* the pairs (i, j), j < i, one pass of the loop of lines 561-584 visits
\* unmarked
Unmarked(table, num_states) ==
    {p \in (0..(num_states - 1)) \X (0..(num_states - 1)) : p[2] < p[1] /\ table[p[1]][p[2]] = 0}

\* The table left as it was initialized: no pair is marked for its
\* successors. C17 must tell it apart.
fill_NoRefinement(f, table, num_states) == [table |-> table, err |-> NoError]

\* lines 556-586: passes until one changes nothing
RECURSIVE _fill_minimization_table(_, _, _)
_fill_minimization_table(f, table, num_states) ==
    LET pairs == Unmarked(table, num_states)
        marked == {p \in pairs : ScanPair(f, table, p[1], p[2], 1) = "mark"}
        new_table == [i \in 0..(num_states - 1) |-> [j \in 0..(num_states - 1) |->
                        IF <<i, j>> \in marked \/ <<j, i>> \in marked THEN 1 ELSE table[i][j]]]
    IN  IF \E p \in pairs : ScanPair(f, table, p[1], p[2], 1) = "raise"
        THEN [table |-> table, err |-> Raise("KeyError")]
        ELSE IF marked = {} THEN [table |-> table, err |-> NoError]
        ELSE _fill_minimization_table(f, new_table, num_states)

\* A pass that reports a change as long as any pair is unmarked, whether
\* or not it marked one. C37 must tell it apart.
fill_pass_WhileUnmarked(f, table, num_states) ==
    LET pairs == Unmarked(table, num_states)
        marked == {p \in pairs : ScanPair(f, table, p[1], p[2], 1) = "mark"}
    IN  [table |-> [i \in 0..(num_states - 1) |-> [j \in 0..(num_states - 1) |->
                      IF <<i, j>> \in marked \/ <<j, i>> \in marked THEN 1 ELSE table[i][j]]],
         changed |-> pairs # {},
         err |-> IF \E p \in pairs : ScanPair(f, table, p[1], p[2], 1) = "raise"
                 THEN Raise("KeyError") ELSE NoError]

\* lines 558-584: one pass of the while loop over the table of its start,
\* which is old_table; the table it leaves, the flag changed, and the
\* exception it raises, if any
fill_pass(f, table, num_states) ==
    LET pairs == Unmarked(table, num_states)
        marked == {p \in pairs : ScanPair(f, table, p[1], p[2], 1) = "mark"}
    IN  [table |-> [i \in 0..(num_states - 1) |-> [j \in 0..(num_states - 1) |->
                      IF <<i, j>> \in marked \/ <<j, i>> \in marked THEN 1 ELSE table[i][j]]],
         changed |-> marked # {},
         err |-> IF \E p \in pairs : ScanPair(f, table, p[1], p[2], 1) = "raise"
                 THEN Raise("KeyError") ELSE NoError]

\* lines 601-617, from state i on
RECURSIVE FindGroups(_, _, _, _)
FindGroups(table, num_states, i, processed) ==
    IF i >= num_states THEN <<>>
    ELSE IF i \in processed THEN FindGroups(table, num_states, i + 1, processed)
    ELSE LET equivalent_set == {i} \cup {j \in (i + 1)..(num_states - 1) : table[i][j] = 0}
         IN  <<equivalent_set>> \o
             FindGroups(table, num_states, i + 1, processed \cup equivalent_set)

\* A class gathered for every state i, processed or not. C32 must tell it
\* apart.
find_EveryState(table, num_states) ==
    [k \in 1..num_states |->
        {k - 1} \cup {j \in k..(num_states - 1) : table[k - 1][j] = 0}]

_find_equivalent_states(table, num_states) == FindGroups(table, num_states, 0, {})

Min(S) == CHOOSE x \in S : \A y \in S : x <= y

\* sorted(group)
RECURSIVE sorted(_)
sorted(S) == IF S = {} THEN <<>> ELSE <<Min(S)>> \o sorted(S \ {Min(S)})

\* lines 629-637 as the sequence of the assignments state_mapping[S_idx] = keep
\* they make, in order
RECURSIVE MergePlan(_)
MergePlan(equivalent_groups) ==
    IF equivalent_groups = <<>> THEN <<>>
    ELSE LET sorted_group == sorted(Head(equivalent_groups))
         IN  [k \in 1..(Len(sorted_group) - 1) |->
                 [drop |-> SName(sorted_group[k + 1]), keep |-> SName(sorted_group[1])]]
             \o MergePlan(Tail(equivalent_groups))

\* lines 635-637 executed along the plan: del self.fsa[S_idx] raises KeyError
\* when an earlier group already deleted that state
RECURSIVE Delete(_, _)
Delete(f, plan) ==
    IF plan = <<>> THEN [fsa |-> f, err |-> NoError]
    ELSE IF Head(plan).drop \notin Keys(f) THEN [fsa |-> f, err |-> Raise("KeyError")]
    ELSE Delete(SelectSeq(f, LAMBDA e : e.name # Head(plan).drop), Tail(plan))

\* state_mapping.get(t, t) for every name t of the table before the merge;
\* a later assignment to the same key replaces an earlier one
state_mapping(names, plan) ==
    [t \in names |->
        IF \E k \in DOMAIN plan : plan[k].drop = t
        THEN plan[CHOOSE k \in DOMAIN plan :
                    plan[k].drop = t /\ \A l \in DOMAIN plan : plan[l].drop = t => l <= k].keep
        ELSE t]

MinimizationError == Raise("MinimizationError")

\* A merge that deletes no state and adds, for the first pair of the plan, a
\* combined state with the row of the state kept. C15 must tell it apart.
merge_AddCombined(f, equivalent_groups) ==
    LET plan == MergePlan(equivalent_groups)
    IN  IF plan = <<>> THEN [fsa |-> f, err |-> NoError]
        ELSE [fsa |-> Append(f, [name |-> SName(Len(f)), row |-> Row(f, plan[1].keep)]),
              err |-> NoError]

\* lines 619-648
_merge_equivalent_states(f, equivalent_groups) ==
    LET plan == MergePlan(equivalent_groups)
        deleted == Delete(f, plan)
        m == state_mapping(Keys(f) \cup UNION {RowTargets(f[i].row) : i \in DOMAIN f}, plan)
    IN  IF deleted.err # NoError THEN deleted
        ELSE [fsa |-> [i \in DOMAIN deleted.fsa |->
                          [deleted.fsa[i] EXCEPT !.row = MapRow(deleted.fsa[i].row, m)]],
              err |-> NoError]

\* minimize without lines 483-484: the steps run whatever is_min says. C14
\* must tell it apart.
minimize_NoShortcut(f, s, im) ==
    LET pruned == remove_unreachable_states(f, s)
        normal == _normalize(pruned.fsa, s)
        num_states == Len(normal.fsa)
        table == _initialize_minimization_table(num_states, accepting_states(normal.fsa))
        filled == _fill_minimization_table(normal.fsa, table, num_states)
        equivalent_groups == _find_equivalent_states(filled.table, num_states)
        merged == _merge_equivalent_states(normal.fsa, equivalent_groups)
        final == _normalize(merged.fsa, normal.state)
    IN  IF pruned.err # NoError \/ normal.err # NoError \/ filled.err # NoError
           \/ merged.err # NoError \/ final.err # NoError
        THEN [fsa |-> f, state |-> s, is_min |-> im, err |-> MinimizationError]
        ELSE [fsa |-> final.fsa, state |-> final.state, is_min |-> TRUE, err |-> NoError]

\* The result of self.minimize(), lines 483-518: any exception of a step is
\* re-raised as MinimizationError and leaves what the earlier steps did.
minimize(f, s, im) ==
    IF im THEN [fsa |-> f, state |-> s, is_min |-> im, err |-> NoError]
    ELSE
    LET pruned == remove_unreachable_states(f, s)
        normal == _normalize(pruned.fsa, s)
        num_states == Len(normal.fsa)
        table == _initialize_minimization_table(num_states, accepting_states(normal.fsa))
        filled == _fill_minimization_table(normal.fsa, table, num_states)
        equivalent_groups == _find_equivalent_states(filled.table, num_states)
        merged == _merge_equivalent_states(normal.fsa, equivalent_groups)
        final == _normalize(merged.fsa, normal.state)
    IN  IF pruned.err # NoError
        THEN [fsa |-> f, state |-> s, is_min |-> im, err |-> MinimizationError]
        ELSE IF normal.err # NoError
        THEN [fsa |-> normal.fsa, state |-> normal.state, is_min |-> im, err |-> MinimizationError]
        ELSE IF filled.err # NoError
        THEN [fsa |-> normal.fsa, state |-> normal.state, is_min |-> im, err |-> MinimizationError]
        ELSE IF merged.err # NoError
        THEN [fsa |-> merged.fsa, state |-> normal.state, is_min |-> im, err |-> MinimizationError]
        ELSE IF final.err # NoError
        THEN [fsa |-> final.fsa, state |-> final.state, is_min |-> im, err |-> MinimizationError]
        ELSE [fsa |-> final.fsa, state |-> final.state, is_min |-> TRUE, err |-> NoError]

(***************************************************************************)
(* __init__                                                                *)
(***************************************************************************)
\* the target names of a row from its k-th symbol on, in the order lines
\* 107-122 visit them: symbol after symbol, the members of a list in turn
RECURSIVE TargetsFrom(_, _)
TargetsFrom(trans, k) ==
    IF k > Len(trans) THEN <<>> ELSE trans[k].tgt.names \o TargetsFrom(trans, k + 1)

\* lines 101-122 for one row of definition d: a row is a record that has
\* the fields start and accept only if the dict has these keys
RowDefect(d, row) ==
    IF ~({"start", "accept"} \subseteq DOMAIN row)
    THEN Raise("InvalidFSADefinitionError")
    ELSE LET targets == TargetsFrom(row.trans, 1)
             missing == {k \in DOMAIN targets : targets[k] \notin Keys(d)}
         IN  IF missing = {} THEN NoError ELSE InvalidStateError(targets[Min(missing)])

\* validation without lines 106-122: the targets are not looked at. C12
\* must tell it apart.
validate_FieldsOnly(d) ==
    IF d = <<>> \/ \E i \in DOMAIN d : ~({"start", "accept"} \subseteq DOMAIN d[i].row)
    THEN Raise("InvalidFSADefinitionError")
    ELSE NoError

\* lines 91-122: the exception raised by the first defective row, NoError
\* if there is none
_validate_fsa_definition(d) ==
    IF d = <<>> THEN Raise("InvalidFSADefinitionError")
    ELSE LET defective == {i \in DOMAIN d : RowDefect(d, d[i].row) # NoError}
         IN  IF defective = {} THEN NoError ELSE RowDefect(d, d[Min(defective)].row)

\* line 65
start_states(d) == SelectSeq(d, LAMBDA e : e.row.start)

\* StateMachine(d), lines 61-76
StateMachine(d) ==
    IF _validate_fsa_definition(d) # NoError
    THEN [fsa |-> <<>>, state |-> <<>>, accept |-> FALSE, is_min |-> FALSE,
          err |-> _validate_fsa_definition(d)]
    ELSE IF Len(start_states(d)) # 1
    THEN [fsa |-> <<>>, state |-> <<>>, accept |-> FALSE, is_min |-> FALSE,
          err |-> Raise("InvalidFSADefinitionError")]
    ELSE LET first == start_states(d)[1]
             normal == _normalize(d, first.name)
         IN  [fsa |-> normal.fsa, state |-> normal.state, accept |-> first.row.accept,
              is_min |-> FALSE, err |-> normal.err]

(***************************************************************************)
(* create_divisibility_checker                                             *)
(***************************************************************************)
\* create_transitions with the state not multiplied by the base. C5 must
\* tell it apart.
create_transitions_NoShift(base, divisor, st) ==
    [k \in 1..base |->
        [sym |-> PyStr(IntToStr(k - 1)),
         tgt |-> Single(SName((st + (k - 1)) % divisor))]]

\* lines 226-232
create_transitions(base, divisor, st) ==
    [k \in 1..base |->
        [sym |-> PyStr(IntToStr(k - 1)),
         tgt |-> Single(SName((base * st + (k - 1)) % divisor))]]

\* lines 221-242: the definition built, <<>> when ValueError is raised
DivisibilityDefinition(base, divisor) ==
    IF base < 2 \/ divisor < 1 THEN <<>>
    ELSE [i \in 1..divisor |->
            [name |-> SName(i - 1),
             row |-> [trans |-> create_transitions(base, divisor, i - 1),
                      start |-> (i - 1) = 0, accept |-> (i - 1) = 0]]]

\* The factory without lines 223-224: the divisor is not tested. C29 must
\* tell it apart.
create_checker_NoDivisorTest(base, divisor) ==
    IF base < 2
    THEN [fsa |-> <<>>, state |-> <<>>, accept |-> FALSE, is_min |-> FALSE,
          err |-> Raise("ValueError")]
    ELSE StateMachine(DivisibilityDefinition(base, divisor))

\* StateMachine.create_divisibility_checker(base, divisor), lines 221-242
create_divisibility_checker(base, divisor) ==
    IF base < 2 \/ divisor < 1
    THEN [fsa |-> <<>>, state |-> <<>>, accept |-> FALSE, is_min |-> FALSE,
          err |-> Raise("ValueError")]
    ELSE StateMachine(DivisibilityDefinition(base, divisor))

(***************************************************************************)
(* combine_states                                                          *)
(***************************************************************************)
\* ord(c) for the characters of the state names
ord(c) ==
    IF IsDigit(c) THEN 48 + DigitVal(c)
    ELSE IF c = "A" THEN 65
    ELSE IF c = "B" THEN 66
    ELSE IF c = "S" THEN 83
    ELSE IF c = "X" THEN 88
    ELSE IF c = "Y" THEN 89
    ELSE IF c = "q" THEN 113
    ELSE 178

\* a < b for two str
RECURSIVE StrLess(_, _)
StrLess(a, b) ==
    IF b = <<>> THEN FALSE
    ELSE IF a = <<>> THEN TRUE
    ELSE IF Head(a) # Head(b) THEN ord(Head(a)) < ord(Head(b))
    ELSE StrLess(Tail(a), Tail(b))

\* The names in the order given. C22 must tell it apart.
sorted_names_AsGiven(state_names) == state_names

\* line 269, sorted(state_names): the i-th of the result is the name with
\* i - 1 names before it, equal names in the order given
sorted_names(state_names) ==
    LET before(i) == Cardinality({j \in DOMAIN state_names :
                        \/ StrLess(state_names[j], state_names[i])
                        \/ (state_names[j] = state_names[i] /\ j < i)})
    IN  [p \in DOMAIN state_names |->
            state_names[CHOOSE i \in DOMAIN state_names : before(i) = p - 1]]

\* ",".join(names)
RECURSIVE join(_)
join(names) ==
    IF names = <<>> THEN <<>>
    ELSE IF Len(names) = 1 THEN names[1]
    ELSE names[1] \o <<",">> \o join(Tail(names))

\* line 270
combined_name(state_names) == <<"{">> \o join(sorted_names(state_names)) \o <<"}">>

\* sorted(target_states) for a set of str
RECURSIVE sorted_strs(_)
sorted_strs(S) ==
    IF S = {} THEN <<>>
    ELSE LET least == CHOOSE x \in S : \A y \in S : x = y \/ StrLess(x, y)
         IN  <<least>> \o sorted_strs(S \ {least})

\* lines 273-277
all_symbols(f, state_names) ==
    UNION {Symbols(Row(f, state_names[i])) : i \in DOMAIN state_names}

\* lines 285-288: the symbol itself when the row of the first name has it,
\* str(symbol) otherwise
combined_key(f, state_names, symbol) ==
    IF RowIn(Row(f, state_names[1]), symbol) THEN symbol ELSE PyStr(str(symbol))

\* lines 282, 290-296: the targets under key on the rows of the names
target_states(f, state_names, key) ==
    UNION {{Target(Row(f, state_names[i]), key).names[k] :
                k \in DOMAIN Target(Row(f, state_names[i]), key).names} :
           i \in {j \in DOMAIN state_names : RowIn(Row(f, state_names[j]), key)}}

\* lines 299-302
combined_target(targets) ==
    IF Cardinality(targets) = 1 THEN Single(CHOOSE t \in targets : TRUE)
    ELSE List(sorted_strs(targets))

\* the positions of the names that are no key
missing(f, state_names) == {i \in DOMAIN state_names : state_names[i] \notin Keys(f)}

\* The validation that goes through the names from the last to the first.
\* C24 must tell it apart.
validate_names_Backwards(f, state_names) ==
    IF missing(f, state_names) = {} THEN NoError
    ELSE InvalidStateError(state_names[CHOOSE i \in missing(f, state_names) :
                                          \A j \in missing(f, state_names) : j <= i])

\* lines 264-266: the loop raises at the first name that is no key
validate_names(f, state_names) ==
    IF missing(f, state_names) = {} THEN NoError
    ELSE InvalidStateError(state_names[Min(missing(f, state_names))])

\* The combination entered in the table under its name. C23 must tell it
\* apart.
combine_states_Insert(f, state_names) ==
    IF validate_names(f, state_names) # NoError
    THEN [fsa |-> f, result |-> NoResult, err |-> validate_names(f, state_names)]
    ELSE [fsa |-> Append(f, [name |-> combined_name(state_names),
                             row |-> [trans |-> <<>>, start |-> FALSE, accept |-> FALSE]]),
          result |-> <<[name |-> combined_name(state_names),
                        row |-> [trans |-> {}, start |-> FALSE, accept |-> FALSE]]>>,
          err |-> NoError]

\* The result of self.combine_states(*state_names), lines 263-312: the
\* table afterwards, the dict returned and the exception raised.  The row
\* returned holds its symbol entries as a set: they are written in the order
\* of iteration of the Python set all_symbols, and two symbols with the same
\* key write the same entry.
combine_states(f, state_names) ==
    IF validate_names(f, state_names) # NoError
    THEN [fsa |-> f, result |-> NoResult, err |-> validate_names(f, state_names)]
    ELSE LET entry(symbol) ==
                 LET key == combined_key(f, state_names, symbol)
                 IN  [sym |-> key, tgt |-> combined_target(target_states(f, state_names, key))]
             combined_state ==
                 [trans |-> {entry(symbol) : symbol \in all_symbols(f, state_names)},
                  start |-> \E i \in DOMAIN state_names : Row(f, state_names[i]).start,
                  accept |-> \E i \in DOMAIN state_names : Row(f, state_names[i]).accept]
         IN  [fsa |-> f,
              result |-> <<[name |-> combined_name(state_names), row |-> combined_state]>>,
              err |-> NoError]

(***************************************************************************)
(* minimize_arrows                                                         *)
(***************************************************************************)
\* _symbol_sort_key(a) < _symbol_sort_key(b), lines 415-425, for two int or
\* two str symbols
SymbolLess(a, b) == IF a.t = "int" THEN a.n < b.n ELSE StrLess(a.s, b.s)

\* line 394, sorted(symbols, key=self._symbol_sort_key), for symbols of one
\* type
sorted_symbols(symbols) ==
    LET before(i) == Cardinality({j \in DOMAIN symbols : SymbolLess(symbols[j], symbols[i])})
    IN  [p \in DOMAIN symbols |-> symbols[CHOOSE i \in DOMAIN symbols : before(i) = p - 1]]

\* line 399
separator(add_spaces) == IF add_spaces THEN <<",", " ">> ELSE <<",">>

\* sep.join(strs)
RECURSIVE join_with(_, _)
join_with(sep, strs) ==
    IF strs = <<>> THEN <<>>
    ELSE IF Len(strs) = 1 THEN strs[1]
    ELSE strs[1] \o sep \o join_with(sep, Tail(strs))

\* lines 396-400
label(symbols, add_spaces) ==
    join_with(separator(add_spaces),
              [k \in DOMAIN symbols |-> str(sorted_symbols(symbols)[k])])

\* lines 380-388: the targets of a row in the order they first appear, each
\* with the symbols that lead to it in the order of the row
symbol_groups(row) ==
    LET first == sorted({i \in DOMAIN row.trans :
                            \A j \in 1..(i - 1) : row.trans[j].tgt # row.trans[i].tgt})
    IN  [k \in DOMAIN first |->
            LET target == row.trans[first[k]].tgt
                members == SelectSeq(row.trans, LAMBDA e : e.tgt = target)
            IN  [tgt |-> target, symbols |-> [i \in DOMAIN members |-> members[i].sym]]]

\* d[key] = value on the entries of a dict: a key the dict has keeps its
\* place
setitem(d, key, value) ==
    IF \E i \in DOMAIN d : d[i].sym = key
    THEN [i \in DOMAIN d |-> IF d[i].sym = key THEN [sym |-> key, tgt |-> value] ELSE d[i]]
    ELSE Append(d, [sym |-> key, tgt |-> value])

\* lines 391-402 from the k-th group on
RECURSIVE optimized_transitions(_, _, _, _)
optimized_transitions(done, groups, add_spaces, k) ==
    IF k > Len(groups) THEN done
    ELSE optimized_transitions(
             setitem(done, PyStr(label(groups[k].symbols, add_spaces)), groups[k].tgt),
             groups, add_spaces, k + 1)

\* the rows on which lines 384 and 394 raise TypeError: a list target is
\* not hashable, and sorted() cannot compare an int with a str
unsortable(row) ==
    \/ \E i \in DOMAIN row.trans : row.trans[i].tgt.list
    \/ \E i, j \in DOMAIN row.trans :
          /\ row.trans[i].tgt = row.trans[j].tgt
          /\ row.trans[i].sym.t # row.trans[j].sym.t

\* The result of self.minimize_arrows(add_spaces), lines 374-413: the dict
\* returned and the exception raised
minimize_arrows(f, add_spaces) ==
    IF \E i \in DOMAIN f : unsortable(f[i].row)
    THEN [result |-> NoResult, err |-> Raise("TypeError")]
    ELSE [result |-> [i \in DOMAIN f |->
                        [name |-> f[i].name,
                         row |-> [trans |-> optimized_transitions(<<>>, symbol_groups(f[i].row),
                                                                 add_spaces, 1),
                                  start |-> f[i].row.start,
                                  accept |-> f[i].row.accept]]],
          err |-> NoError]

(***************************************************************************)
(* The dict objects behind a definition and a table                        *)
(***************************************************************************)
\* A memory holds the outer dicts, each a sequence of entries [name, ref]
\* with ref the index of a row dict, the row dicts, the index of the dict the
\* caller passed as definition and the index of self.fsa (0: no automaton).
NoMemory == [dicts |-> <<>>, rows |-> <<>>, definition |-> 0, self_fsa |-> 0]

\* the mapping that outer dict o denotes in memory m
Deref(m, o) ==
    IF o = 0 THEN <<>>
    ELSE [i \in DOMAIN m.dicts[o] |->
            [name |-> m.dicts[o][i].name, row |-> m.rows[m.dicts[o][i].ref]]]

\* the memory of a caller that holds definition d, every row its own dict
Store(d) ==
    [dicts |-> <<[i \in DOMAIN d |-> [name |-> d[i].name, ref |-> i]]>>,
     rows |-> [i \in DOMAIN d |-> d[i].row],
     definition |-> 1,
     self_fsa |-> 0]

\* state_def with no copy taken: the row dict itself. C13 must tell it apart.
copy_SameObject(rows, ref) == [rows |-> rows, ref |-> ref]

\* line 340, state_def.copy(): the rows with a new row dict of the same
\* content, and its index
copy(rows, ref) == [rows |-> Append(rows, rows[ref]), ref |-> Len(rows) + 1]

\* The rows rewritten where they are: no copy is taken and the outer dict
\* built refers to the row dicts it was built from. C27 must tell it apart.
RECURSIVE new_fsa_InPlace(_, _, _, _)
new_fsa_InPlace(rows, items, m, i) ==
    IF i > Len(items) THEN [rows |-> rows, items |-> <<>>]
    ELSE LET written == [rows EXCEPT ![items[i].ref] = MapRow(@, m)]
             rest == new_fsa_InPlace(written, items, m, i + 1)
         IN  [rows |-> rest.rows,
              items |-> <<[name |-> m[items[i].name], ref |-> items[i].ref]>> \o rest.items]

\* lines 337-350 from the i-th entry of the outer dict on: each row is
\* copied, the copy's targets are rewritten through m (lines 343-348; a list
\* is replaced by a new list) and entered under the new name
RECURSIVE new_fsa(_, _, _, _)
new_fsa(rows, items, m, i) ==
    IF i > Len(items) THEN [rows |-> rows, items |-> <<>>]
    ELSE LET new_state_def == copy(rows, items[i].ref)
             written == [new_state_def.rows EXCEPT ![new_state_def.ref] = MapRow(@, m)]
             rest == new_fsa(written, items, m, i + 1)
         IN  [rows |-> rest.rows,
              items |-> <<[name |-> m[items[i].name], ref |-> new_state_def.ref]>>
                            \o rest.items]

\* self._normalize() on the objects, lines 325-358, with current state s:
\* when sorted() or a name_mapping[v] of the loop raises, self.fsa is not
\* assigned; otherwise self.fsa becomes the new outer dict
normalize_in_memory(m, s) ==
    LET f == Deref(m, m.self_fsa)
        r == _normalize(f, s)
        built == new_fsa(m.rows, m.dicts[m.self_fsa], name_mapping(f), 1)
    IN  IF \/ \E i \in DOMAIN f : SortKey(f[i].name).bad
           \/ \E i \in DOMAIN f : ~(RowTargets(f[i].row) \subseteq Keys(f))
        THEN [mem |-> m, state |-> s, err |-> r.err]
        ELSE [mem |-> [m EXCEPT !.dicts = Append(@, built.items),
                                !.rows = built.rows,
                                !.self_fsa = Len(m.dicts) + 1],
              state |-> r.state, err |-> r.err]

\* the constructor raised e: there is no automaton, and what it allocated
\* is lost
NoAutomaton(m, e) == [mem |-> m, state |-> <<>>, accept |-> FALSE, err |-> e]

\* The constructor with the first state of the definition as the current
\* state, whichever state has start = true. C30 must tell it apart.
new_StateMachine_FirstKey(m) ==
    LET d == Deref(m, m.definition)
        copied == [m EXCEPT !.dicts = Append(@, m.dicts[m.definition]),
                            !.self_fsa = Len(m.dicts) + 1]
    IN  IF _validate_fsa_definition(d) # NoError
        THEN NoAutomaton(m, _validate_fsa_definition(d))
        ELSE IF Len(start_states(d)) # 1
        THEN NoAutomaton(m, Raise("InvalidFSADefinitionError"))
        ELSE LET first == d[1]
                 normal == normalize_in_memory(copied, first.name)
             IN  IF normal.err # NoError THEN NoAutomaton(m, normal.err)
                 ELSE [mem |-> normal.mem, state |-> normal.state,
                       accept |-> first.row.accept, err |-> NoError]

\* StateMachine(definition) on the objects, lines 61-76
new_StateMachine(m) ==
    LET d == Deref(m, m.definition)
        copied == [m EXCEPT !.dicts = Append(@, m.dicts[m.definition]),
                            !.self_fsa = Len(m.dicts) + 1]
    IN  IF _validate_fsa_definition(d) # NoError
        THEN NoAutomaton(m, _validate_fsa_definition(d))
        ELSE IF Len(start_states(d)) # 1
        THEN NoAutomaton(m, Raise("InvalidFSADefinitionError"))
        ELSE LET first == start_states(d)[1]
                 normal == normalize_in_memory(copied, first.name)
             IN  IF normal.err # NoError THEN NoAutomaton(m, normal.err)
                 ELSE [mem |-> normal.mem, state |-> normal.state,
                       accept |-> first.row.accept, err |-> NoError]

\* What del self.fsa[name] (lines 463-464, 637) and state_def[symbol] = ...
\* (lines 645-648) leave of outer dict o when the table it denotes becomes f:
\* the entries of the states of f stay, and their row dicts, the same
\* objects, hold the rows of f
Mutate(m, o, f) ==
    LET kept == SelectSeq(m.dicts[o], LAMBDA e : e.name \in Keys(f))
    IN  [m EXCEPT !.dicts[o] = kept,
                  !.rows = [ref \in DOMAIN m.rows |->
                              IF \E i \in DOMAIN kept : kept[i].ref = ref
                              THEN Row(f, kept[CHOOSE i \in DOMAIN kept : kept[i].ref = ref].name)
                              ELSE m.rows[ref]]]

\* self.remove_unreachable_states() on the objects, with current state s
remove_in_memory(m, s) ==
    LET r == remove_unreachable_states(Deref(m, m.self_fsa), s)
    IN  IF r.err # NoError THEN [mem |-> m, err |-> r.err]
        ELSE [mem |-> Mutate(m, m.self_fsa, r.fsa), err |-> NoError]

\* lines 492-513 on the objects, once remove_unreachable_states and
\* _normalize have left the table f in memory normal.mem
merge_in_memory(normal, im, f) ==
    LET num_states == Len(f)
        table == _initialize_minimization_table(num_states, accepting_states(f))
        filled == _fill_minimization_table(f, table, num_states)
        equivalent_groups == _find_equivalent_states(filled.table, num_states)
        merged == _merge_equivalent_states(f, equivalent_groups)
    IN  IF normal.err # NoError \/ filled.err # NoError
        THEN [mem |-> normal.mem, state |-> normal.state, is_min |-> im,
              err |-> MinimizationError]
        ELSE CHOOSE r \in
                 {IF merged.err # NoError
                  THEN [mem |-> merged_mem, state |-> normal.state, is_min |-> im,
                        err |-> MinimizationError]
                  ELSE LET final == normalize_in_memory(merged_mem, normal.state)
                       IN  IF final.err # NoError
                           THEN [mem |-> final.mem, state |-> final.state, is_min |-> im,
                                 err |-> MinimizationError]
                           ELSE [mem |-> final.mem, state |-> final.state,
                                 is_min |-> TRUE, err |-> NoError] :
                  merged_mem \in {Mutate(normal.mem, normal.mem.self_fsa, merged.fsa)}} : TRUE

\* self.minimize() on the objects, lines 483-518, with current state s and
\* is_min im
minimize_in_memory(m, s, im) ==
    IF im THEN [mem |-> m, state |-> s, is_min |-> im, err |-> NoError]
    ELSE
    LET pruned == remove_in_memory(m, s)
    IN  IF pruned.err # NoError
        THEN [mem |-> m, state |-> s, is_min |-> im, err |-> MinimizationError]
        ELSE CHOOSE r \in
                 {merge_in_memory(normal, im, f) :
                  <<normal, f>> \in {<<n, Deref(n.mem, n.mem.self_fsa)>> :
                                        n \in {normalize_in_memory(pruned.mem, s)}}} : TRUE

\* a memory with two automata: the one operated on, self, and its twin, of
\* which the memory holds the outer dict and the other fields
WithTwin(m, self_fsa, twin) ==
    [dicts |-> m.dicts, rows |-> m.rows, definition |-> m.definition,
     self_fsa |-> self_fsa, twin |-> twin]

(***************************************************************************)
(* The definitions and inputs the model draws from                         *)
(***************************************************************************)
MaxInputLen == 2
MaxCalls == 2
MaxBase == 3
MaxDivisor == 3
MaxDigits == 3
MaxWordLen == 3

StrKeys == <<PyStr(<<"0">>), PyStr(<<"1">>)>>
IntKeys == <<PyInt(0), PyInt(1)>>

\* the definition with the given state names in which state i goes to state
\* delta[i][k] on keys[k], is the start state iff i = st and accepts iff i \in acc
DefOf(names, keys, delta, acc, st) ==
    [i \in DOMAIN names |->
        [name |-> names[i],
         row |-> [trans |-> [k \in DOMAIN keys |->
                               [sym |-> keys[k], tgt |-> Single(names[delta[i][k]])]],
                  start |-> i = st, accept |-> i \in acc]]]

CanonicalNames(n) == [i \in 1..n |-> SName(i - 1)]

\* every DFA with n states S0..S(n-1) that defines every key on every row
TotalDFAs(n, keys) ==
    {DefOf(CanonicalNames(n), keys, delta, acc, st) :
        delta \in [1..n -> [DOMAIN keys -> 1..n]], acc \in SUBSET (1..n), st \in 1..n}

\* every DFA over "0", "1" with one or two states
SmallDFAs == TotalDFAs(1, StrKeys) \cup TotalDFAs(2, StrKeys)

\* the 6-state DFA of test_wikipedia_minimization_example
Wikipedia ==
    DefOf(CanonicalNames(6), StrKeys,
          <<<<2, 3>>, <<1, 4>>, <<5, 6>>, <<5, 6>>, <<5, 6>>, <<6, 6>>>>, {3, 4, 5}, 1)

\* the 4-state DFA of test_unreachable_state_removal
WithUnreachable ==
    DefOf(CanonicalNames(4), StrKeys, <<<<1, 2>>, <<2, 3>>, <<3, 3>>, <<4, 4>>>>, {1}, 1)

\* the int-keyed DFA `divisible` of the legacy module
Divisible ==
    DefOf(CanonicalNames(3), IntKeys, <<<<1, 2>>, <<3, 1>>, <<2, 3>>>>, {1}, 1)

\* the simple_nfa fixture: S0 goes to ["S0", "S1"] on "1"
SimpleNFA ==
    LET d == DefOf(CanonicalNames(2), StrKeys, <<<<1, 1>>, <<2, 2>>>>, {2}, 1)
    IN  [d EXCEPT ![1].row.trans[2].tgt = List(<<SName(0), SName(1)>>)]

\* simple_nfa with one-element lists: S0 goes to ["S1"] on "1", S1 to ["S0"]
\* on "0" and to ["S0", "S1"] on "1"
SingletonNFA ==
    LET d == DefOf(CanonicalNames(2), StrKeys, <<<<1, 2>>, <<1, 2>>>>, {2}, 1)
    IN  [d EXCEPT ![1].row.trans[2].tgt = List(<<SName(1)>>),
                  ![2].row.trans[1].tgt = List(<<SName(0)>>),
                  ![2].row.trans[2].tgt = List(<<SName(0), SName(1)>>)]

\* a DFA whose state S1 defines no transition on "1"
Partial ==
    LET d == DefOf(CanonicalNames(2), StrKeys, <<<<2, 1>>, <<2, 2>>>>, {2}, 1)
    IN  [d EXCEPT ![2].row.trans = <<d[2].row.trans[1]>>]

\* DFAs in which two non-accepting states, S0 and S1, both go to S2 on "0"
\* and only one of them defines "1": the lower-numbered S0 in the first, the
\* higher-numbered S1 in the second
PartialLow ==
    LET d == DefOf(CanonicalNames(3), StrKeys, <<<<3, 3>>, <<3, 3>>, <<2, 1>>>>, {3}, 1)
    IN  [d EXCEPT ![2].row.trans = <<d[2].row.trans[1]>>]

PartialHigh ==
    LET d == DefOf(CanonicalNames(3), StrKeys, <<<<3, 3>>, <<3, 3>>, <<2, 1>>>>, {3}, 1)
    IN  [d EXCEPT ![1].row.trans = <<d[1].row.trans[1]>>]

LetterKeys == <<PyStr(<<"a">>), PyStr(<<"b">>)>>

\* the 4-state DFA of test_malta_minimization_example, whose state S3 no
\* state leads to
Malta ==
    DefOf(CanonicalNames(4), LetterKeys, <<<<2, 1>>, <<1, 3>>, <<3, 2>>, <<2, 3>>>>, {1, 2}, 1)

Fixtures ==
    {Wikipedia, WithUnreachable, Divisible, SimpleNFA, SingletonNFA, Partial, PartialLow,
     PartialHigh, Malta}

\* expected_post of test_wikipedia_minimization_example
WikipediaMinimized ==
    DefOf(CanonicalNames(3), StrKeys, <<<<1, 2>>, <<2, 3>>, <<3, 3>>>>, {2}, 1)

Definitions == SmallDFAs \cup Fixtures

InputSymbols == {PyInt(0), PyInt(1), PyInt(2)}

RECURSIVE SeqsUpTo(_, _)
SeqsUpTo(S, n) ==
    IF n = 0 THEN {<<>>}
    ELSE LET shorter == SeqsUpTo(S, n - 1)
         IN  shorter \cup {Append(w, x) : w \in {v \in shorter : Len(v) = n - 1}, x \in S}

Inputs == SeqsUpTo(InputSymbols, MaxInputLen)

\* the digit sequences a divisibility checker is fed
DigitInputs == SeqsUpTo({PyInt(k) : k \in 0..(MaxBase - 1)}, MaxDigits)

\* the two ways of passing the symbols w: one argument each, or one list
Symbol(x) == [list |-> FALSE, items |-> <<x>>]
Separate(w) == [k \in DOMAIN w |-> Symbol(w[k])]
OneList(w) == <<[list |-> TRUE, items |-> w]>>

\* flatten that reads its first argument only. C6 must tell it apart.
flatten_FirstArgument(args) == IF args = <<>> THEN <<>> ELSE Head(args).items

\* lines 141-146
RECURSIVE flatten(_)
flatten(args) == IF args = <<>> THEN <<>> ELSE Head(args).items \o flatten(Tail(args))

(***************************************************************************)
(* The definitions a caller may pass to the constructor                    *)
(***************************************************************************)
MaxSteps == 3

\* state names: S2 and S10 (numeric against alphabetic order), S01 and S1
\* (equal numbers), q1 (digits after another letter), A, B and S (no
\* digits), and S followed by U+00B2
NamePool ==
    {<<"S", "0">>, <<"S", "1">>, <<"S", "2">>, <<"S", "1", "0">>, <<"S", "0", "1">>,
     <<"q", "1">>, <<"A">>, <<"B">>, <<"S">>, <<"S", "sup2">>}

ThreeNamePool == {<<"S", "1">>, <<"S", "2">>, <<"S", "1", "0">>, <<"q", "1">>, <<"A">>}

\* the sequences of n different names of P
NameSeqs(P, n) == {s \in [1..n -> P] : \A i, j \in 1..n : i # j => s[i] # s[j]}

\* a valid definition over the given names: state i goes to the next state
\* on "0" and to the first state on "1"; with a list, the first state goes to
\* [last, first] on "1"; the last state accepts, state st is the start
Ring(names, st, list) ==
    LET n == Len(names)
        d == DefOf(names, StrKeys, [i \in 1..n |-> <<(i % n) + 1, 1>>], {n}, st)
    IN  IF list
        THEN [d EXCEPT ![1].row.trans[2].tgt = List(<<names[n], names[1]>>)]
        ELSE d

NamedDefinitions ==
    {Ring(names, st, list) :
        names \in NameSeqs(NamePool, 1) \cup NameSeqs(NamePool, 2)
                     \cup NameSeqs(ThreeNamePool, 3),
        st \in {1}, list \in BOOLEAN}
    \cup {Ring(names, Len(names), FALSE) : names \in NameSeqs(ThreeNamePool, 3)}

\* a row dict with the given transitions that has the key "start" and the
\* key "accept" only when has_start and has_accept say so
RawRow(trans, has_start, is_start, has_accept, is_accept) ==
    IF has_start /\ has_accept THEN [trans |-> trans, start |-> is_start, accept |-> is_accept]
    ELSE IF has_start THEN [trans |-> trans, start |-> is_start]
    ELSE IF has_accept THEN [trans |-> trans, accept |-> is_accept]
    ELSE [trans |-> trans]

\* the targets a row of a two-state definition may give to "1": a key, a
\* name that is no key, lists with and without such names
TargetChoices ==
    {Single(SName(0)), Single(<<"S", "7">>), List(<<SName(1), SName(0)>>),
     List(<<SName(0), <<"S", "8">>, <<"S", "7">>>>)}

\* the two-state definitions S0, S1 whose rows may lack start or accept, may
\* name a state that is no key, and may have no or two start states
FlawedDefinitions ==
    {<<[name |-> SName(0),
        row |-> RawRow(<<[sym |-> StrKeys[1], tgt |-> Single(SName(1))],
                         [sym |-> StrKeys[2], tgt |-> t0]>>, h0[1], s0, h0[2], FALSE)],
       [name |-> SName(1),
        row |-> RawRow(<<[sym |-> StrKeys[1], tgt |-> t1],
                         [sym |-> StrKeys[2], tgt |-> Single(SName(1))]>>, h1[1], s1, h1[2], TRUE)]>> :
        t0 \in TargetChoices, t1 \in TargetChoices,
        h0 \in BOOLEAN \X BOOLEAN, h1 \in BOOLEAN \X BOOLEAN,
        s0 \in BOOLEAN, s1 \in BOOLEAN}

\* {} and the definitions above
RawDefinitions == {<<>>} \cup NamedDefinitions \cup FlawedDefinitions

(***************************************************************************)
(* Tables with integer, string and mixed keys                              *)
(***************************************************************************)
MaxNames == 2

\* an int-keyed table whose state S0 defines no transition on 1
IntPartial ==
    LET d == DefOf(CanonicalNames(2), IntKeys, <<<<1, 1>>, <<1, 2>>>>, {2}, 1)
    IN  [d EXCEPT ![1].row.trans = <<d[1].row.trans[1]>>]

\* the same table with the keys "0" and "1"
StrPartial ==
    LET d == DefOf(CanonicalNames(2), StrKeys, <<<<1, 1>>, <<1, 2>>>>, {2}, 1)
    IN  [d EXCEPT ![1].row.trans = <<d[1].row.trans[1]>>]

\* S0 has the key "0" and S1 the key 0
MixedKeys ==
    <<[name |-> SName(0),
       row |-> [trans |-> <<[sym |-> PyStr(<<"0">>), tgt |-> Single(SName(0))]>>,
                start |-> TRUE, accept |-> FALSE]],
      [name |-> SName(1),
       row |-> [trans |-> <<[sym |-> PyInt(0), tgt |-> Single(SName(1))]>>,
                start |-> FALSE, accept |-> TRUE]]>>

\* eleven states S0..S10 in a ring on "0", each going back to S0 on "1"
Long ==
    DefOf(CanonicalNames(11), StrKeys, [i \in 1..11 |-> <<(i % 11) + 1, 1>>], {11}, 1)

KeyedDefinitions ==
    {IntPartial, StrPartial, MixedKeys, Long, Divisible, SimpleNFA, SingletonNFA, Partial,
     WithUnreachable}

\* names that are no state of any table
MissingNames == {<<"X">>, <<"Y">>}

\* a number and its string form
EitherSymbols == {PyInt(0), PyInt(1), PyStr(<<"0">>), PyStr(<<"1">>)}

(***************************************************************************)
(* Tables for minimize_arrows                                              *)
(***************************************************************************)
MaxRowLen == 3

\* the numbers 2 and 10 and their string forms: as numbers 2 < 10, as
\* strings "10" < "2"
LabelSymbols == {PyInt(2), PyInt(10), PyStr(<<"2">>), PyStr(<<"1", "0">>)}

\* the two-state table whose state S0 leads to S(to[k]) on keys[k]
ArrowTable(keys, to) ==
    <<[name |-> SName(0),
       row |-> [trans |-> [k \in DOMAIN keys |->
                             [sym |-> keys[k], tgt |-> Single(SName(to[k]))]],
                start |-> TRUE, accept |-> FALSE]],
      [name |-> SName(1),
       row |-> [trans |-> <<[sym |-> PyStr(<<"0">>), tgt |-> Single(SName(1))]>>,
                start |-> FALSE, accept |-> TRUE]]>>

\* the tables whose state S0 has up to MaxRowLen of the symbols above, in
\* any order, each leading to S0 or S1; and tables with list targets
ArrowDefinitions ==
    {ArrowTable(p[1], p[2]) :
        p \in {q \in (UNION {NameSeqs(LabelSymbols, n) : n \in 0..MaxRowLen})
                     \X (UNION {[1..n -> 0..1] : n \in 0..MaxRowLen}) :
                 Len(q[1]) = Len(q[2])}}
    \cup {SimpleNFA, SingletonNFA, Divisible, Wikipedia}

(***************************************************************************)
(* The state machine                                                       *)
(***************************************************************************)
Snapshot ==
    [fsa |-> fsa, state |-> state, accept |-> accept, is_min |-> is_min, op |-> op.name]

InitFrom(m, how) ==
    /\ m.err = NoError
    /\ fsa = m.fsa
    /\ state = m.state
    /\ accept = m.accept
    /\ is_min = m.is_min
    /\ err = NoError
    /\ op = [name |-> "init", args |-> <<>>]
    /\ pre = [fsa |-> m.fsa, state |-> m.state, accept |-> m.accept, is_min |-> m.is_min,
              op |-> "none"]
    /\ origin = how
    /\ calls = 0
    /\ returned = TRUE
    /\ mem = NoMemory
    /\ result = NoResult
    /\ frame = NoFrame

\* StateMachine(d) for a definition d
Init == \E d \in Definitions :
            InitFrom(StateMachine(d), [kind |-> "StateMachine", base |-> 0, divisor |-> 0])

\* StateMachine.create_divisibility_checker(base, divisor)
InitDiv == \E base \in 2..MaxBase, divisor \in 1..MaxDivisor :
            InitFrom(create_divisibility_checker(base, divisor),
                     [kind |-> "create_divisibility_checker", base |-> base, divisor |-> divisor])

\* what an operation that returns self records
Record(name, args, e) ==
    /\ err' = e
    /\ result' = NoResult
    /\ op' = [name |-> name, args |-> args]
    /\ pre' = Snapshot
    /\ calls' = calls + 1
    /\ returned' = (returned /\ e = NoError)
    /\ UNCHANGED <<origin, frame>>

\* self(*args)
DoCall(args) ==
    LET r == Call(fsa, state, accept, flatten(args))
    IN  /\ state' = r.state
        /\ accept' = r.accept
        /\ Record("call", args, r.err)
        /\ UNCHANGED <<fsa, is_min, mem>>

CallSymbols == calls < MaxCalls /\ \E w \in Inputs : DoCall(Separate(w))

CallList == calls < MaxCalls /\ \E w \in Inputs : DoCall(OneList(w))

\* the first call on a divisibility checker
CallDigits == calls = 0 /\ \E w \in DigitInputs : DoCall(Separate(w))

\* self.norm()
Normalize ==
    LET r == _normalize(fsa, state)
    IN  /\ calls < MaxCalls
        /\ fsa' = r.fsa
        /\ state' = r.state
        /\ Record("normalize", <<>>, r.err)
        /\ UNCHANGED <<accept, is_min, mem>>

\* self.remove_unreachable_states()
RemoveUnreachable ==
    LET r == remove_unreachable_states(fsa, state)
    IN  /\ calls < MaxCalls
        /\ fsa' = r.fsa
        /\ Record("remove", <<>>, r.err)
        /\ UNCHANGED <<state, accept, is_min, mem>>

\* self.minimize()
Minimize ==
    LET r == minimize(fsa, state, is_min)
    IN  /\ calls < MaxCalls
        /\ fsa' = r.fsa
        /\ state' = r.state
        /\ is_min' = r.is_min
        /\ Record("minimize", <<>>, r.err)
        /\ UNCHANGED <<accept, mem>>

Next == CallSymbols \/ CallList \/ Normalize \/ RemoveUnreachable \/ Minimize

Spec == Init /\ [][Next]_vars

\* a fresh divisibility checker fed one digit sequence
NextDiv == CallDigits

SpecDiv == InitDiv /\ [][NextDiv]_vars

\* A caller that holds a definition, constructs an automaton from it, and
\* then changes the definition or normalizes the automaton.
InitNew ==
    \E d \in RawDefinitions :
        /\ mem = Store(d)
        /\ fsa = <<>>
        /\ state = <<>>
        /\ accept = FALSE
        /\ is_min = FALSE
        /\ err = NoError
        /\ op = [name |-> "none", args |-> <<>>]
        /\ pre = [fsa |-> <<>>, state |-> <<>>, accept |-> FALSE, is_min |-> FALSE,
                  op |-> "none"]
        /\ origin = [kind |-> "StateMachine", base |-> 0, divisor |-> 0]
        /\ calls = 0
        /\ returned = TRUE
        /\ result = NoResult
        /\ frame = NoFrame

\* StateMachine(definition)
New ==
    LET r == new_StateMachine(mem)
    IN  /\ op.name = "none"
        /\ mem' = r.mem
        /\ fsa' = Deref(r.mem, r.mem.self_fsa)
        /\ state' = r.state
        /\ accept' = r.accept
        /\ Record("new", Deref(mem, mem.definition), r.err)
        /\ UNCHANGED is_min

\* self.norm() on the constructed automaton
Renormalize ==
    LET r == normalize_in_memory(mem, state)
    IN  /\ mem.self_fsa # 0
        /\ calls < MaxSteps
        /\ mem' = r.mem
        /\ fsa' = Deref(r.mem, r.mem.self_fsa)
        /\ state' = r.state
        /\ Record("normalize", <<>>, r.err)
        /\ UNCHANGED <<accept, is_min>>

\* what a change of the caller's objects leaves: the automaton's table is
\* what self.fsa denotes afterwards
Edit(m) ==
    /\ mem.self_fsa # 0
    /\ calls < MaxSteps
    /\ mem' = m
    /\ fsa' = Deref(m, m.self_fsa)
    /\ Record("edit", <<>>, NoError)
    /\ UNCHANGED <<state, accept, is_min>>

\* definition["S9"] = {"start": False, "accept": False}
AddState ==
    /\ mem.definition # 0
    /\ <<"S", "9">> \notin Keys(Deref(mem, mem.definition))
    /\ Edit([mem EXCEPT !.rows = Append(@, [trans |-> <<>>, start |-> FALSE, accept |-> FALSE]),
                        !.dicts[mem.definition] =
                            Append(@, [name |-> <<"S", "9">>, ref |-> Len(mem.rows) + 1])])

\* del definition[name]
RemoveState ==
    /\ mem.definition # 0
    /\ \E i \in DOMAIN mem.dicts[mem.definition] :
          Edit([mem EXCEPT !.dicts[mem.definition] =
                    SubSeq(@, 1, i - 1) \o SubSeq(@, i + 1, Len(@))])

\* definition[name][symbol] = "S9", or definition[name][symbol] = [..., "S9"]
\* in place of a list
ChangeTarget ==
    /\ mem.definition # 0
    /\ \E i \in DOMAIN mem.dicts[mem.definition] :
          LET ref == mem.dicts[mem.definition][i].ref
          IN  \E k \in DOMAIN mem.rows[ref].trans :
                  Edit([mem EXCEPT !.rows[ref].trans[k].tgt =
                            IF @.list THEN List(Append(@.names, <<"S", "9">>))
                            ELSE Single(<<"S", "9">>)])

\* definition[name]["start"] or definition[name]["accept"] negated
FlipFlag ==
    /\ mem.definition # 0
    /\ \E i \in DOMAIN mem.dicts[mem.definition] :
          LET ref == mem.dicts[mem.definition][i].ref
          IN  \/ Edit([mem EXCEPT !.rows[ref].start = ~@])
              \/ Edit([mem EXCEPT !.rows[ref].accept = ~@])

NextNew == New \/ Renormalize \/ AddState \/ RemoveState \/ ChangeTarget \/ FlipFlag

SpecNew == InitNew /\ [][NextNew]_vars

\* An automaton on which states are combined and single symbols, given as
\* numbers or as strings, are simulated.
InitKeys == \E d \in KeyedDefinitions :
                InitFrom(StateMachine(d), [kind |-> "StateMachine", base |-> 0, divisor |-> 0])

\* self.combine_states(*state_names)
CombineStates ==
    /\ calls < MaxCalls
    /\ \E state_names \in SeqsUpTo(Keys(fsa) \cup MissingNames, MaxNames) :
          LET r == combine_states(fsa, state_names)
          IN  /\ fsa' = r.fsa
              /\ result' = r.result
              /\ err' = r.err
              /\ op' = [name |-> "combine", args |-> state_names]
              /\ pre' = Snapshot
              /\ calls' = calls + 1
              /\ returned' = (returned /\ r.err = NoError)
              /\ UNCHANGED <<state, accept, is_min, origin, mem, frame>>

\* self(symbol)
CallKey == calls < MaxCalls /\ \E symbol \in EitherSymbols : DoCall(<<Symbol(symbol)>>)

NextKeys == CombineStates \/ CallKey

SpecKeys == InitKeys /\ [][NextKeys]_vars

\* the arguments a caller may give to create_divisibility_checker
BaseChoices == (-1)..MaxBase
DivisorChoices == (-1)..MaxDivisor

\* A caller that calls create_divisibility_checker(base, divisor) and feeds
\* the automaton it gets one digit sequence.
InitFactory ==
    \E base \in BaseChoices, divisor \in DivisorChoices :
        /\ fsa = <<>>
        /\ state = <<>>
        /\ accept = FALSE
        /\ is_min = FALSE
        /\ err = NoError
        /\ op = [name |-> "none", args |-> <<>>]
        /\ pre = [fsa |-> <<>>, state |-> <<>>, accept |-> FALSE, is_min |-> FALSE,
                  op |-> "none"]
        /\ origin = [kind |-> "create_divisibility_checker", base |-> base,
                     divisor |-> divisor]
        /\ calls = 0
        /\ returned = TRUE
        /\ mem = NoMemory
        /\ result = NoResult
        /\ frame = NoFrame

\* StateMachine.create_divisibility_checker(base, divisor)
Create ==
    LET r == create_divisibility_checker(origin.base, origin.divisor)
    IN  /\ op.name = "none"
        /\ fsa' = r.fsa
        /\ state' = r.state
        /\ accept' = r.accept
        /\ is_min' = r.is_min
        /\ Record("create", <<>>, r.err)
        /\ UNCHANGED mem

\* the first call on the automaton created
FeedDigits ==
    /\ op.name = "create"
    /\ err = NoError
    /\ \E w \in DigitInputs : DoCall(Separate(w))

NextFactory == Create \/ FeedDigits

SpecFactory == InitFactory /\ [][NextFactory]_vars

\* Two automata constructed from the same definition, one after the other;
\* the operations are performed on one of them, self.
InitTwin ==
    \E d \in Definitions, self_first \in BOOLEAN :
      \E a \in {new_StateMachine(Store(d))} :
      \E b \in {new_StateMachine(a.mem)} :
        LET one == [fsa |-> a.mem.self_fsa, state |-> a.state, accept |-> a.accept,
                    is_min |-> FALSE]
            other == [fsa |-> b.mem.self_fsa, state |-> b.state, accept |-> b.accept,
                      is_min |-> FALSE]
            self == IF self_first THEN one ELSE other
            twin == IF self_first THEN other ELSE one
        IN  /\ a.err = NoError
            /\ b.err = NoError
            /\ mem = WithTwin(b.mem, self.fsa, twin)
            /\ fsa = Deref(b.mem, self.fsa)
            /\ state = self.state
            /\ accept = self.accept
            /\ is_min = FALSE
            /\ err = NoError
            /\ op = [name |-> "init", args |-> <<>>]
            /\ pre = [fsa |-> Deref(b.mem, self.fsa), state |-> self.state,
                      accept |-> self.accept, is_min |-> FALSE, op |-> "none"]
            /\ origin = [kind |-> "StateMachine", base |-> 0, divisor |-> 0]
            /\ calls = 0
            /\ returned = TRUE
            /\ result = NoResult
            /\ frame = NoFrame

\* self(*inputs)
TwinCall == calls < MaxCalls /\ \E w \in Inputs : DoCall(Separate(w))

\* self.norm()
TwinNormalize ==
    LET r == normalize_in_memory(mem, state)
    IN  /\ calls < MaxCalls
        /\ mem' = r.mem
        /\ fsa' = Deref(r.mem, r.mem.self_fsa)
        /\ state' = r.state
        /\ Record("normalize", <<>>, r.err)
        /\ UNCHANGED <<accept, is_min>>

\* self.remove_unreachable_states()
TwinRemove ==
    LET r == remove_in_memory(mem, state)
    IN  /\ calls < MaxCalls
        /\ mem' = r.mem
        /\ fsa' = Deref(r.mem, r.mem.self_fsa)
        /\ Record("remove", <<>>, r.err)
        /\ UNCHANGED <<state, accept, is_min>>

\* self.minimize()
TwinMinimize ==
    LET r == minimize_in_memory(mem, state, is_min)
    IN  /\ calls < MaxCalls
        /\ mem' = r.mem
        /\ fsa' = Deref(r.mem, r.mem.self_fsa)
        /\ state' = r.state
        /\ is_min' = r.is_min
        /\ Record("minimize", <<>>, r.err)
        /\ UNCHANGED accept

NextTwin == TwinCall \/ TwinNormalize \/ TwinRemove \/ TwinMinimize

SpecTwin == InitTwin /\ [][NextTwin]_vars

\* An automaton whose transition labels are asked for.
InitArrows == \E d \in ArrowDefinitions :
                InitFrom(StateMachine(d), [kind |-> "StateMachine", base |-> 0, divisor |-> 0])

\* self.minimize_arrows(add_spaces)
MinimizeArrows ==
    /\ calls < MaxCalls
    /\ \E add_spaces \in BOOLEAN :
          LET r == minimize_arrows(fsa, add_spaces)
          IN  /\ result' = r.result
              /\ err' = r.err
              /\ op' = [name |-> "arrows", args |-> <<add_spaces>>]
              /\ pre' = Snapshot
              /\ calls' = calls + 1
              /\ returned' = (returned /\ r.err = NoError)
              /\ UNCHANGED <<fsa, state, accept, is_min, origin, mem, frame>>

NextArrows == MinimizeArrows

SpecArrows == InitArrows /\ [][NextArrows]_vars

\* Simulation with the names of the two flags among the input symbols.
ReservedSymbols == {PyStr(START), PyStr(ACCEPT)}

ReservedInputs == SeqsUpTo(ReservedSymbols \cup {PyInt(0), PyStr(<<"1">>)}, MaxInputLen)

ReservedDefinitions == SmallDFAs \cup {Divisible, Wikipedia, Malta}

InitReserved == \E d \in ReservedDefinitions :
            InitFrom(StateMachine(d), [kind |-> "StateMachine", base |-> 0, divisor |-> 0])

CallReserved == calls < MaxCalls /\ \E w \in ReservedInputs : DoCall(Separate(w))

NextReserved == CallReserved

SpecReserved == InitReserved /\ [][NextReserved]_vars

\* minimize() followed through its loops: one step for each state popped
\* from the queue of remove_unreachable_states, one for each pass of
\* _fill_minimization_table.
\* a DFA that counts to three: S3, the accepting state, is told apart from
\* the others at once, S2 by the first pass, S1 from S0 by the second
Chain ==
    DefOf(CanonicalNames(4), StrKeys, <<<<2, 2>>, <<3, 3>>, <<4, 4>>, <<4, 4>>>>, {4}, 1)

StepDefinitions == Definitions \cup {Chain}

InitSteps == \E d \in StepDefinitions :
            InitFrom(StateMachine(d), [kind |-> "StateMachine", base |-> 0, divisor |-> 0])

\* a simulation before minimize() is called
StepCall == calls = 0 /\ frame.pc = "none" /\ \E w \in Inputs : DoCall(Separate(w))

\* minimize() returns or raises e
Finish(e) ==
    /\ err' = e
    /\ result' = NoResult
    /\ op' = [name |-> "minimize", args |-> <<>>]
    /\ pre' = frame.entry
    /\ calls' = calls + 1
    /\ returned' = (returned /\ e = NoError)
    /\ frame' = NoFrame
    /\ UNCHANGED <<accept, origin, mem>>

StepsUnchanged == UNCHANGED <<accept, err, op, pre, origin, calls, returned, mem, result>>

\* lines 483-487 and 439-440: minimize() is called
Begin ==
    /\ frame.pc = "none"
    /\ calls < MaxCalls
    /\ IF is_min
       THEN /\ Record("minimize", <<>>, NoError)
            /\ UNCHANGED <<fsa, state, accept, is_min, mem>>
       ELSE /\ frame' = [pc |-> "bfs", entry |-> Snapshot, queue |-> <<state>>,
                         reachable_states |-> {}, visited |-> <<>>, table |-> <<>>]
            /\ UNCHANGED <<fsa, state, is_min>>
            /\ StepsUnchanged

\* lines 442-459: one iteration of the while loop
Pop ==
    /\ frame.pc = "bfs"
    /\ frame.queue # <<>>
    /\ LET current_state == Head(frame.queue)
           reached == frame.reachable_states \cup {current_state}
           targets == TargetsFrom(Row(fsa, current_state).trans, 1)
       IN  IF current_state \in frame.reachable_states
           THEN /\ frame' = [frame EXCEPT !.queue = Tail(@)]
                /\ UNCHANGED <<fsa, state, is_min>>
                /\ StepsUnchanged
           ELSE IF current_state \notin Keys(fsa)
           THEN /\ Finish(MinimizationError)
                /\ UNCHANGED <<fsa, state, is_min>>
           ELSE /\ frame' = [frame EXCEPT
                                !.queue = Tail(@) \o SelectSeq(targets, LAMBDA t : t \notin reached),
                                !.reachable_states = reached,
                                !.visited = Append(@, current_state)]
                /\ UNCHANGED <<fsa, state, is_min>>
                /\ StepsUnchanged

\* lines 461-464 and 489-499: the queue is empty; the states not reached
\* are deleted, the table is normalized and the minimization table set up
Prune ==
    /\ frame.pc = "bfs"
    /\ frame.queue = <<>>
    /\ \E normal \in {_normalize(SelectSeq(fsa, LAMBDA e : e.name \in frame.reachable_states),
                                  state)} :
           /\ fsa' = normal.fsa
           /\ state' = normal.state
           /\ UNCHANGED is_min
           /\ IF normal.err # NoError
              THEN Finish(MinimizationError)
              ELSE /\ frame' = [frame EXCEPT
                                   !.pc = "fill",
                                   !.table = _initialize_minimization_table(
                                                 Len(normal.fsa), accepting_states(normal.fsa))]
                   /\ StepsUnchanged

\* lines 557-584: one pass of the while loop
Pass ==
    /\ frame.pc = "fill"
    /\ \E r \in {fill_pass(fsa, frame.table, Len(fsa))} :
           /\ UNCHANGED <<fsa, state, is_min>>
           /\ IF r.err # NoError
              THEN Finish(MinimizationError)
              ELSE /\ frame' = [frame EXCEPT !.pc = IF r.changed THEN "fill" ELSE "merge",
                                             !.table = r.table]
                   /\ StepsUnchanged

\* lines 502-513: the classes are found and merged, the table is normalized
Merge ==
    /\ frame.pc = "merge"
    /\ \E equivalent_groups \in {_find_equivalent_states(frame.table, Len(fsa))} :
       \E merged \in {_merge_equivalent_states(fsa, equivalent_groups)} :
       \E final \in {_normalize(merged.fsa, state)} :
           IF merged.err # NoError
           THEN /\ fsa' = merged.fsa
                /\ UNCHANGED <<state, is_min>>
                /\ Finish(MinimizationError)
           ELSE /\ fsa' = final.fsa
                /\ state' = final.state
                /\ is_min' = (final.err = NoError)
                /\ Finish(IF final.err # NoError THEN MinimizationError ELSE NoError)

NextSteps == StepCall \/ Begin \/ Pop \/ Prune \/ Pass \/ Merge

\* the one thread that runs minimize() keeps running
SpecSteps == InitSteps /\ [][NextSteps]_vars /\ WF_vars(NextSteps)

(***************************************************************************)
(* Properties                                                              *)
(***************************************************************************)
\* the input of the last call, flattened
Word == flatten(op.args)

\* the names of the rows with start = true
StartNames(f) == {f[i].name : i \in {k \in DOMAIN f : f[k].row.start}}

\* every target of every row is a key
Closed(f) == \A i \in DOMAIN f : RowTargets(f[i].row) \subseteq Keys(f)

\* the states reachable from the states in R through transition targets
RECURSIVE ReachableFrom(_, _)
ReachableFrom(f, R) ==
    LET step == R \cup {n \in Keys(f) : \E q \in R \cap Keys(f) : n \in RowTargets(Row(f, q))}
    IN  IF step = R THEN R ELSE ReachableFrom(f, step)

\* a DFA whose rows all define the same symbols, each with a single target
SameSymbolDFA(f) ==
    /\ \A i, j \in DOMAIN f : Symbols(f[i].row) = Symbols(f[j].row)
    /\ \A i \in DOMAIN f : \A k \in DOMAIN f[i].row.trans : ~f[i].row.trans[k].tgt.list

\* the input sequences up to MaxWordLen over the symbols a table defines
Words(f) == SeqsUpTo(UNION {Symbols(f[i].row) : i \in DOMAIN f}, MaxWordLen)

\* C1: minimize() on a freshly constructed DFA whose rows all define the same
\* symbols with single targets returns normally, and every input sequence
\* over those symbols gives the same accept flag from the start on the
\* minimized automaton as on the unminimized one.
C1_MinimizePreservesAcceptance ==
    (calls = 1 /\ op.name = "minimize" /\ SameSymbolDFA(pre.fsa)) =>
        /\ err = NoError
        /\ \A w \in Words(pre.fsa) :
              Call(fsa, state, accept, w).accept
                  = Call(pre.fsa, pre.state, pre.accept, w).accept

\* C2: after operations that all returned normally, exactly one state of the
\* table has start = true.
C2_ExactlyOneStart == returned => Cardinality(StartNames(fsa)) = 1

\* C3: remove_unreachable_states, called on a table with one start state,
\* keeps exactly the states reachable from the start state, the start state
\* among them.
C3_RemovesExactlyUnreachable ==
    (op.name = "remove" /\ err = NoError /\ Cardinality(StartNames(pre.fsa)) = 1) =>
        /\ Keys(fsa) = ReachableFrom(pre.fsa, StartNames(pre.fsa))
        /\ StartNames(pre.fsa) \subseteq Keys(fsa)

\* C4: after operations that all returned normally, every transition target
\* of every state, and every member of every list target, is a key of the
\* table.
C4_TargetsAreKeys == returned => Closed(fsa)

\* a minimize that returned normally after an earlier operation and merged or
\* pruned states
C4_Witness ==
    /\ returned
    /\ calls = 2
    /\ op.name = "minimize"
    /\ Len(fsa) < Len(pre.fsa)
    /\ Closed(fsa)

\* the value of a digit sequence read in the given base
RECURSIVE DigitsValue(_, _)
DigitsValue(w, base) ==
    IF w = <<>> THEN 0
    ELSE DigitsValue(SubSeq(w, 1, Len(w) - 1), base) * base + w[Len(w)].n

\* C5: create_divisibility_checker(base, divisor) builds the states
\* S0..S(divisor-1) with start and accept true on S0 only, and after it has
\* simulated a sequence of digits below the base it is in state S_r, r the
\* value of the digits in that base modulo the divisor, with accept true
\* exactly when r = 0.
C5_DivisibilityChecker ==
    origin.kind = "create_divisibility_checker" =>
        /\ [i \in DOMAIN fsa |-> fsa[i].name] = [i \in 1..origin.divisor |-> SName(i - 1)]
        /\ \A i \in DOMAIN fsa :
              /\ fsa[i].row.start = (fsa[i].name = SName(0))
              /\ fsa[i].row.accept = (fsa[i].name = SName(0))
        /\ (op.name = "call" /\ \A k \in DOMAIN Word : Word[k].n < origin.base) =>
              LET r == DigitsValue(Word, origin.base) % origin.divisor
              IN  /\ err = NoError
                  /\ state = SName(r)
                  /\ accept = (r = 0)

\* base 3, divisor 3 after three digits, the last one leaving remainder 2
C5_Witness ==
    /\ origin.kind = "create_divisibility_checker"
    /\ origin.base = 3
    /\ origin.divisor = 3
    /\ op.name = "call"
    /\ Len(Word) = MaxDigits
    /\ state = SName(2)
    /\ ~accept

\* the symbols of an argument list, passed in the other shape: one list
\* when they were separate arguments, separate arguments when one list
OtherShape(args) ==
    IF args # <<>> /\ args[1].list THEN Separate(args[1].items)
    ELSE OneList([k \in DOMAIN args |-> args[k].items[1]])

\* one step of C6
C6_Step ==
    /\ (op'.name = "call" /\ err' = NoError) =>
          LET r == Call(fsa, state, accept, flatten(OtherShape(op'.args)))
          IN  /\ r.err = NoError
              /\ state' = r.state
              /\ accept' = r.accept
    /\ (op.name = "call" /\ err = NoError /\ op'.name = "call" /\ err' = NoError) =>
          LET r == Call(pre.fsa, pre.state, pre.accept,
                        flatten(op.args) \o flatten(op'.args))
          IN  /\ r.err = NoError
              /\ state' = r.state
              /\ accept' = r.accept

\* C6: a call that raises no error leaves the state and accept flag the
\* call with the same symbols in the other shape (separate arguments, one
\* list) would leave, and when it follows a call that raised no error, the
\* state and accept flag one call with the concatenation of the two inputs
\* would have left. A call without error is the return of self (line 176):
\* the next call acts on the same object.
C6_SimulationComposes == [][C6_Step]_vars

\* a second call, given one list of two symbols, that moved the state after
\* a first call, both without error
C6_Witness ==
    /\ returned
    /\ calls = 2
    /\ op.name = "call"
    /\ pre.op = "call"
    /\ Len(op.args) = 1
    /\ op.args[1].list
    /\ Len(Word) = 2
    /\ state # pre.state

\* C7: a call that raises InvalidTransitionError leaves state and accept at
\* the values they had before the call.
C7_ErrorLeavesStateAndAccept ==
    (op.name = "call" /\ err.kind = "InvalidTransitionError") =>
        /\ state = pre.state
        /\ accept = pre.accept

\* C7, amended: a call that raises InvalidTransitionError leaves accept at
\* the value it had before the call, and leaves state at its value before
\* the call when the undefined symbol is the first symbol of the call.
C7_ErrorLeavesAccept ==
    (op.name = "call" /\ err.kind = "InvalidTransitionError") =>
        /\ accept = pre.accept
        /\ symbol_key(Row(pre.fsa, pre.state), Word[1]) = <<>> => state = pre.state

\* a call of two symbols whose first symbol is undefined on the current
\* state, made after another operation
C7_Witness ==
    /\ op.name = "call"
    /\ err.kind = "InvalidTransitionError"
    /\ calls = 2
    /\ Len(Word) = 2
    /\ symbol_key(Row(pre.fsa, pre.state), Word[1]) = <<>>
    /\ state = pre.state
    /\ accept = pre.accept

\* the symbols before the i-th of the last call
Before(i) == SubSeq(Word, 1, i - 1)

\* C8: when the i-th symbol of a call is the first one the then-current
\* state has no transition for, the call raises InvalidTransitionError
\* naming that state and that symbol, and the current state afterwards is
\* the state the symbols before it lead to from the state before the call.
C8_FirstUndefinedSymbol ==
    op.name = "call" =>
        \A i \in DOMAIN Word :
            LET p == Call(pre.fsa, pre.state, pre.accept, Before(i))
            IN  (/\ p.err = NoError
                 /\ symbol_key(Row(pre.fsa, p.state), Word[i]) = <<>>)
                => /\ err = InvalidTransitionError(p.state, str(Word[i]))
                   /\ state = p.state

\* a call whose second symbol is the undefined one, after its first symbol
\* moved the state
C8_Witness ==
    /\ op.name = "call"
    /\ Len(Word) = 2
    /\ err.kind = "InvalidTransitionError"
    /\ err.symbol = <<"2">>
    /\ state # pre.state
    /\ err.state = state

\* C9: whenever an operation has returned or raised, the accept field is
\* the accept flag of the row of the current state.
C9_AcceptDerivedFromState == state \in Keys(fsa) => accept = Row(fsa, state).accept

\* the table with every list target of one member replaced by that member
Unlist(f) ==
    [i \in DOMAIN f |->
        [f[i] EXCEPT !.row.trans =
            [k \in DOMAIN f[i].row.trans |->
                IF f[i].row.trans[k].tgt.list /\ Len(f[i].row.trans[k].tgt.names) = 1
                THEN [f[i].row.trans[k] EXCEPT !.tgt = Single(f[i].row.trans[k].tgt.names[1])]
                ELSE f[i].row.trans[k]]]]

\* C10: when the i-th symbol of a call is the first whose target on the
\* then-current state is a list of more than one member, the call fails
\* with the ambiguous-transition FSAError and the current state stays the
\* state the symbols before it lead to; and every call leaves the state,
\* accept flag and error it would leave on the table whose one-member lists
\* are replaced by their members.
C10_ListTargets ==
    op.name = "call" =>
        /\ \A i \in DOMAIN Word :
              LET p == Call(pre.fsa, pre.state, pre.accept, Before(i))
                  key == symbol_key(Row(pre.fsa, p.state), Word[i])
              IN  (/\ p.err = NoError
                   /\ key # <<>>
                   /\ RowGet(Row(pre.fsa, p.state), key[1]).list
                   /\ Len(RowGet(Row(pre.fsa, p.state), key[1]).names) > 1)
                  => /\ err.kind = "FSAError"
                     /\ state = p.state
        /\ LET r == Call(Unlist(pre.fsa), pre.state, pre.accept, Word)
           IN  /\ state = r.state
               /\ accept = r.accept
               /\ err = r.err

\* a call that followed a one-member list and then met a two-member list
C10_Witness ==
    /\ op.name = "call"
    /\ err.kind = "FSAError"
    /\ Len(Word) = 2
    /\ state # pre.state
    /\ pre.fsa # Unlist(pre.fsa)

\* the rows of d that lack start or accept
LackingFlags(d) == {i \in DOMAIN d : ~({"start", "accept"} \subseteq DOMAIN d[i].row)}

\* the targets of d, list members included, that are no keys of d
DanglingTargets(d) == UNION {RowTargets(d[i].row) : i \in DOMAIN d} \ Keys(d)

\* the number of rows of d with start = true, for d whose rows have start
StartCount(d) == Cardinality({i \in DOMAIN d : d[i].row.start})

\* a non-empty definition whose rows all carry start and accept, whose
\* targets are all keys and that has exactly one start row
WellFormed(d) ==
    /\ d # <<>>
    /\ LackingFlags(d) = {}
    /\ DanglingTargets(d) = {}
    /\ StartCount(d) = 1

\* C11: construction succeeds exactly when the definition is non-empty,
\* every row carries start and accept, every target and list member is a
\* key and exactly one row has start = true; when it raises, no automaton
\* exists.
C11_ConstructionIffWellFormed ==
    op.name = "new" =>
        /\ (err = NoError) <=> WellFormed(op.args)
        /\ err # NoError => mem.self_fsa = 0 /\ fsa = <<>>

C13_Step ==
    /\ op'.name = "new" =>
          Deref(mem', mem'.definition) = Deref(mem, mem.definition)
    /\ op'.name = "edit" =>
          /\ fsa' = fsa
          /\ state' = state
          /\ accept' = accept

\* C13: construction leaves the caller's definition, the outer mapping and
\* every row, as it was, and a later change of that definition by the caller
\* (a state added or removed, a target or a flag of a row changed) leaves the
\* automaton's table, state and accept as they were.
C13_DefensiveCopy == [][C13_Step]_vars

\* the caller has made a target of the definition name S9, which is no state
\* of the automaton, whose targets are still all keys
C13_Witness ==
    /\ op.name = "edit"
    /\ mem.self_fsa # 0
    /\ <<"S", "9">> \in DanglingTargets(Deref(mem, mem.definition))
    /\ DanglingTargets(fsa) = {}
    /\ Len(fsa) = Len(Deref(mem, mem.definition))

\* C14: a minimize that returns normally sets is_min; a minimize called
\* when is_min is set returns and leaves table, state, accept and is_min as
\* they were (the operation changes no accept field); and in every state
\* reached with is_min set a minimize call would do so.
C14_MinimizeIdempotent ==
    /\ (op.name = "minimize" /\ err = NoError) => is_min
    /\ (op.name = "minimize" /\ pre.is_min) =>
          /\ err = NoError
          /\ fsa = pre.fsa
          /\ state = pre.state
          /\ accept = pre.accept
          /\ is_min
    /\ is_min =>
          minimize(fsa, state, is_min)
              = [fsa |-> fsa, state |-> state, is_min |-> TRUE, err |-> NoError]

\* a second minimize on the minimized Wikipedia automaton
C14_Witness ==
    /\ op.name = "minimize"
    /\ pre.op = "minimize"
    /\ pre.is_min
    /\ returned
    /\ Len(fsa) = 3
    /\ fsa = pre.fsa

\* C15: a minimize that returns normally leaves at most as many states as
\* there were before it.
C15_MinimizeNeverGrows ==
    (op.name = "minimize" /\ err = NoError) => Len(fsa) <= Len(pre.fsa)

\* a first minimize that merged the six Wikipedia states into three
C15_Witness ==
    /\ op.name = "minimize"
    /\ err = NoError
    /\ calls = 1
    /\ Len(pre.fsa) = 6
    /\ Len(fsa) = 3

\* a table as the mapping it is: dicts compare equal whatever the order of
\* their keys
AsMapping(f) ==
    {[name |-> f[i].name,
      trans |-> {f[i].row.trans[k] : k \in DOMAIN f[i].row.trans},
      start |-> f[i].row.start,
      accept |-> f[i].row.accept] : i \in DOMAIN f}

\* the last operation was minimize() on the automaton just constructed from
\* the Wikipedia definition
MinimizedWikipedia ==
    /\ calls = 1
    /\ op.name = "minimize"
    /\ pre.fsa = Wikipedia
    /\ pre.state = SName(0)

\* C16: minimize() on the automaton of the six-state Wikipedia definition
\* returns with exactly the table S0: {0: S0, 1: S1}, S1: {0: S1, 1: S2},
\* S2: {0: S2, 1: S2}, S0 the start and not accepting, S1 accepting, S2 not,
\* and with accept false; simulating 1, 0 next makes accept true.
C16_WikipediaTable ==
    /\ MinimizedWikipedia =>
          /\ err = NoError
          /\ Len(fsa) = 3
          /\ AsMapping(fsa) = AsMapping(WikipediaMinimized)
          /\ ~accept
    /\ (/\ calls = 2
        /\ op.name = "call"
        /\ Word = <<PyInt(1), PyInt(0)>>
        /\ pre.op = "minimize"
        /\ pre.is_min
        /\ pre.state = SName(0)
        /\ AsMapping(pre.fsa) = AsMapping(WikipediaMinimized))
       => (err = NoError /\ accept)

\* the minimized Wikipedia automaton after 1, 0
C16_Witness ==
    /\ calls = 2
    /\ op.name = "call"
    /\ Word = <<PyInt(1), PyInt(0)>>
    /\ pre.op = "minimize"
    /\ AsMapping(fsa) = AsMapping(WikipediaMinimized)
    /\ state = SName(1)
    /\ accept

\* C17: the minimized Wikipedia automaton has exactly three states, its
\* start state S0 does not accept and its state S2 accepts.
C17_WikipediaS2Accepts ==
    MinimizedWikipedia =>
        /\ Len(fsa) = 3
        /\ StartNames(fsa) = {SName(0)}
        /\ ~Row(fsa, SName(0)).accept
        /\ Row(fsa, SName(2)).accept

\* C17, amended: the minimized Wikipedia automaton has exactly three
\* states, its start state S0 does not accept, its state S1 accepts and its
\* state S2 does not.
C17_WikipediaS1Accepts ==
    MinimizedWikipedia =>
        /\ Len(fsa) = 3
        /\ StartNames(fsa) = {SName(0)}
        /\ ~Row(fsa, SName(0)).accept
        /\ Row(fsa, SName(1)).accept
        /\ ~Row(fsa, SName(2)).accept

\* the minimized Wikipedia automaton, S1 its only accepting state
C17_Witness ==
    /\ MinimizedWikipedia
    /\ err = NoError
    /\ {fsa[i].name : i \in {k \in DOMAIN fsa : fsa[k].row.accept}} = {SName(1)}

\* one step of C18
C18_Step ==
    (op.name \in {"new", "normalize"} /\ err = NoError /\ op'.name = "normalize") =>
        /\ err' = NoError
        /\ fsa' = fsa
        /\ state' = state

\* C18: a normalization that directly follows a normalization (the one the
\* constructor ends with, or a call of norm) returns and leaves the table
\* and the current state as the first one left them.
C18_NormalizeIdempotent == [][C18_Step]_vars

\* norm() called on an automaton just constructed from three states, one of
\* them named q1
C18_Witness ==
    /\ op.name = "normalize"
    /\ pre.op = "new"
    /\ returned
    /\ Len(fsa) = 3
    /\ fsa = pre.fsa
    /\ <<"q", "1">> \in Keys(Deref(mem, mem.definition))

\* the name is S followed by one or more decimal digits
MatchesSDigits(name) ==
    Len(name) >= 2 /\ name[1] = "S" /\ \A k \in 2..Len(name) : IsDigit(name[k])

\* the number the digits after the first character spell
NumericSuffix(name) == StrToInt(SubSeq(name, 2, Len(name)))

\* C19: construction's normalization of a definition of n states names the
\* states exactly S0..S(n-1), each name once; of two states named S<digits>
\* the one with the smaller number gets the smaller rank; a state named
\* S<digits> ranks before every state that is not; and the states not named
\* S<digits> keep their relative order.
C19_RenameOrder ==
    (op.name = "new" /\ err = NoError) =>
        LET d == op.args
            n == Len(d)
            rank == [i \in 1..n |-> StateIndex(fsa[i].name)]
        IN  /\ Len(fsa) = n
            /\ {fsa[i].name : i \in 1..n} = {SName(k) : k \in 0..(n - 1)}
            /\ \A i, j \in 1..n :
                  /\ (/\ MatchesSDigits(d[i].name) /\ MatchesSDigits(d[j].name)
                      /\ NumericSuffix(d[i].name) < NumericSuffix(d[j].name))
                     => rank[i] < rank[j]
                  /\ (MatchesSDigits(d[i].name) /\ ~MatchesSDigits(d[j].name))
                     => rank[i] < rank[j]
                  /\ (~MatchesSDigits(d[i].name) /\ ~MatchesSDigits(d[j].name) /\ i < j)
                     => rank[i] < rank[j]

\* the table a normalization that returned was applied to, and the current
\* state it found: the definition and its start state for the constructor,
\* the table and state before for norm
Normalized ==
    IF op.name = "new"
    THEN [fsa |-> op.args, state |-> start_states(op.args)[1].name]
    ELSE [fsa |-> pre.fsa, state |-> pre.state]

\* C20: under the rename map r of a normalization, the row of r(q) after
\* has the symbols and the start and accept flags of the row of q before,
\* its target on every symbol is r of the target before, member by member
\* for a list, and the current state is r of the current state before.
C20_RenamePreservesStructure ==
    (op.name \in {"new", "normalize"} /\ err = NoError) =>
        LET d == Normalized.fsa
            r == name_mapping(d)
        IN  /\ Keys(fsa) = {r[q] : q \in Keys(d)}
            /\ Len(fsa) = Len(d)
            /\ state = r[Normalized.state]
            /\ \A q \in Keys(d) :
                  LET before == Row(d, q)
                      after == Row(fsa, r[q])
                  IN  /\ Symbols(after) = Symbols(before)
                      /\ after.start = before.start
                      /\ after.accept = before.accept
                      /\ \A a \in Symbols(before) :
                            /\ Target(after, a).list = Target(before, a).list
                            /\ Len(Target(after, a).names) = Len(Target(before, a).names)
                            /\ \A k \in DOMAIN Target(before, a).names :
                                  Target(after, a).names[k] = r[Target(before, a).names[k]]

\* a constructor that renamed three states, q1 among them, and a list target
C20_Witness ==
    /\ op.name = "new"
    /\ err = NoError
    /\ Len(fsa) = 3
    /\ <<"q", "1">> \in Keys(op.args)
    /\ state # start_states(op.args)[1].name
    /\ \E i \in DOMAIN fsa : \E k \in DOMAIN fsa[i].row.trans : fsa[i].row.trans[k].tgt.list

\* the union of the targets that the states named give to symbol
UnionOfTargets(f, state_names, symbol) ==
    UNION {RowTargets([trans |-> SelectSeq(Row(f, state_names[i]).trans,
                                           LAMBDA e : e.sym = symbol)])
           : i \in DOMAIN state_names}

\* C21: the row combine_states returns has an entry for exactly the symbols
\* that appear on the row of at least one of the states named, and the
\* target of each is the union of the targets the states named give to the
\* symbol: the one name when the union has one member, the sorted list of
\* its members otherwise -- for int and for str symbols, whatever the order
\* of the names.
C21_CombinedTransitions ==
    (op.name = "combine" /\ err = NoError) =>
        LET row == result[1].row
            symbols == all_symbols(pre.fsa, op.args)
        IN  /\ {e.sym : e \in row.trans} = symbols
            /\ \A e \in row.trans :
                  LET union == UnionOfTargets(pre.fsa, op.args, e.sym)
                  IN  e.tgt = IF Cardinality(union) = 1
                              THEN Single(CHOOSE t \in union : TRUE)
                              ELSE List(sorted_strs(union))

\* the orders in which the names can be arranged
Arrangements(names) ==
    {p \in [DOMAIN names -> DOMAIN names] : \A i, j \in DOMAIN names : p[i] = p[j] => i = j}

\* C22: the row combine_states returns has start = the OR of the start flags
\* of the states named and accept = the OR of their accept flags, and its key
\* is "{" + the names in lexicographic order, joined by commas + "}".
C22_CombinedFlagsAndName ==
    (op.name = "combine" /\ err = NoError) =>
        /\ Len(result) = 1
        /\ result[1].row.start = (\E i \in DOMAIN op.args : Row(pre.fsa, op.args[i]).start)
        /\ result[1].row.accept = (\E i \in DOMAIN op.args : Row(pre.fsa, op.args[i]).accept)
        /\ \E p \in Arrangements(op.args) :
              LET ordered == [i \in DOMAIN op.args |-> op.args[p[i]]]
              IN  /\ \A i, j \in DOMAIN ordered : i < j => ~StrLess(ordered[j], ordered[i])
                  /\ result[1].name = <<"{">> \o join(ordered) \o <<"}">>

\* combine_states("S2", "S10", ...) returned: the names were not given in
\* lexicographic order, which is not the order of their numbers, and the
\* flags of the states differ
C22_Witness ==
    /\ op.name = "combine"
    /\ err = NoError
    /\ Len(op.args) >= 2
    /\ op.args[1] = SName(2)
    /\ op.args[2] = SName(10)
    /\ \E i, j \in DOMAIN op.args : Row(fsa, op.args[i]).accept # Row(fsa, op.args[j]).accept

\* C23: a call of combine_states, whether it returns or raises, leaves the
\* table, the current state, accept and is_min as they were, and the key of
\* the row returned is no state of the table.
C23_Step ==
    op'.name = "combine" /\ calls' # calls =>
        /\ fsa' = fsa
        /\ state' = state
        /\ accept' = accept
        /\ is_min' = is_min
        /\ \A i \in DOMAIN result' : result'[i].name \notin Keys(fsa')

C23_CombineIsPure == [][C23_Step]_vars

\* combine_states returned a row for two states or more, after a call that
\* moved the automaton
C23_Witness ==
    /\ op.name = "combine"
    /\ err = NoError
    /\ Len(op.args) >= 2
    /\ pre.op = "call"
    /\ state # SName(0)
    /\ result # NoResult

\* C24: combine_states with a name that is no state raises InvalidStateError
\* for the first such name and returns nothing, whatever the other names.
C24_UnknownStateRaises ==
    (op.name = "combine" /\ \E i \in DOMAIN op.args : op.args[i] \notin Keys(pre.fsa)) =>
        LET unknown == {i \in DOMAIN op.args : op.args[i] \notin Keys(pre.fsa)}
        IN  /\ err = InvalidStateError(op.args[Min(unknown)])
            /\ result = NoResult

\* combine_states(known, unknown)
C24_Witness ==
    /\ op.name = "combine"
    /\ Len(op.args) = 2
    /\ op.args[1] \in Keys(fsa)
    /\ op.args[2] \notin Keys(fsa)
    /\ err.kind = "InvalidStateError"

\* C25: when minimize runs on a DFA in which a state lacks a transition for
\* a symbol that another state defines, the table fill does not fail, every
\* pair of states whose rows define different symbols is marked in the
\* filled table, so that the two are not merged, and minimize returns.
C25_MissingTransitionDistinguishes ==
    (op.name = "minimize" /\ ~pre.is_min) =>
        LET pruned == remove_unreachable_states(pre.fsa, pre.state)
            normal == _normalize(pruned.fsa, pre.state)
            num_states == Len(normal.fsa)
            table == _initialize_minimization_table(num_states, accepting_states(normal.fsa))
            filled == _fill_minimization_table(normal.fsa, table, num_states)
            partial == \E i, j \in DOMAIN normal.fsa :
                          Symbols(normal.fsa[i].row) # Symbols(normal.fsa[j].row)
        IN  (/\ pruned.err = NoError
             /\ normal.err = NoError
             /\ \A i \in DOMAIN normal.fsa : \A k \in DOMAIN normal.fsa[i].row.trans :
                   ~normal.fsa[i].row.trans[k].tgt.list
             /\ partial) =>
                /\ filled.err = NoError
                /\ \A i, j \in 0..(num_states - 1) :
                      Symbols(Row(normal.fsa, SName(i))) # Symbols(Row(normal.fsa, SName(j)))
                          => filled.table[i][j] = 1
                /\ err = NoError

\* C27: an operation on one of two automata constructed from the same
\* definition -- a simulation, remove_unreachable_states, norm or minimize --
\* leaves the table, the current state, accept and is_min of the other as
\* they were.
C27_Step ==
    /\ mem'.twin = mem.twin
    /\ Deref(mem', mem'.twin.fsa) = Deref(mem, mem.twin.fsa)

C27_NoSharedState == [][C27_Step]_vars

\* minimize merged states of one automaton and rewrote the targets of the
\* rows it kept, and the twin still has the table it was constructed with
C27_Witness ==
    /\ "twin" \in DOMAIN mem
    /\ op.name = "minimize"
    /\ err = NoError
    /\ Len(fsa) < Len(pre.fsa)
    /\ \E i \in DOMAIN fsa : fsa[i].row # Row(pre.fsa, fsa[i].name)
    /\ Deref(mem, mem.twin.fsa) = StateMachine(Deref(mem, mem.definition)).fsa

\* C28: remove_unreachable_states changes nothing but the set of states:
\* the states kept are states of the table before, in the same order, each
\* with the row it had, and state, accept and is_min are as they were.
C28_Step ==
    op'.name = "remove" /\ calls' # calls =>
        /\ fsa' = SelectSeq(fsa, LAMBDA e : e.name \in Keys(fsa'))
        /\ state' = state
        /\ accept' = accept
        /\ is_min' = is_min

C28_RemoveKeepsRows == [][C28_Step]_vars

\* remove_unreachable_states deleted a state and kept a state that a
\* simulation had moved to, with a transition to another state kept
C28_Witness ==
    /\ op.name = "remove"
    /\ err = NoError
    /\ 1 < Len(fsa)
    /\ Len(fsa) < Len(pre.fsa)
    /\ pre.op = "call"
    /\ \E i \in DOMAIN fsa : fsa[i].name # SName(i - 1)

\* C29: create_divisibility_checker raises ValueError and builds no
\* automaton when base < 2 or divisor < 1, and returns an automaton for every
\* base >= 2 and divisor >= 1.
C29_FactoryRange ==
    op.name = "create" =>
        IF origin.base < 2 \/ origin.divisor < 1
        THEN err.kind = "ValueError" /\ fsa = <<>>
        ELSE err = NoError /\ Len(fsa) = origin.divisor /\ state = SName(0)

\* create_divisibility_checker(base, 0) with a valid base raised
C29_Witness ==
    /\ op.name = "create"
    /\ origin.base >= 2
    /\ origin.divisor = 0
    /\ err.kind = "ValueError"

\* the string form of a number, the number of a string of digits
OtherForm(symbol) ==
    IF symbol.t = "int" THEN PyStr(IntToStr(symbol.n)) ELSE PyInt(StrToInt(symbol.s))

\* C26: simulating the number k and simulating the string form of k have the
\* same outcome, the same next state and accept or the same error, whether
\* the row of the current state has the key as an int or as a str.
C26_NumberAndStringForm ==
    (op.name = "call" /\ Len(Word) = 1) =>
        LET other == Call(pre.fsa, pre.state, pre.accept, <<OtherForm(Word[1])>>)
        IN  /\ state = other.state
            /\ accept = other.accept
            /\ err = other.err

\* C26 as amended: a number k and its string form have the same outcome
\* when the row of the current state does not have the int k as a key; when
\* it has the int k and not the string, the number follows the transition
\* and the string raises InvalidTransitionError, leaving state and accept.
C26_StringFormOfStoredString ==
    (op.name = "call" /\ Len(Word) = 1) =>
        LET symbol == Word[1]
            number == IF symbol.t = "int" THEN symbol ELSE OtherForm(symbol)
            row == Row(pre.fsa, pre.state)
            other == Call(pre.fsa, pre.state, pre.accept, <<OtherForm(symbol)>>)
        IN  IF number \notin Symbols(row)
            THEN state = other.state /\ accept = other.accept /\ err = other.err
            ELSE (symbol.t = "str" /\ symbol \notin Symbols(row)) =>
                    /\ err = InvalidTransitionError(pre.state, symbol.s)
                    /\ state = pre.state
                    /\ accept = pre.accept
                    /\ other.err = NoError
                    /\ other.state = Target(row, number).names[1]

\* a number was simulated on a row that has its string form as the key, and
\* the automaton moved
C26_Witness ==
    /\ op.name = "call"
    /\ Len(Word) = 1
    /\ Word[1].t = "int"
    /\ Word[1] \notin Symbols(Row(pre.fsa, pre.state))
    /\ OtherForm(Word[1]) \in Symbols(Row(pre.fsa, pre.state))
    /\ err = NoError
    /\ state # pre.state

\* C30: right after a construction that succeeded the states are named S0,
\* ..., S(n-1), the current state is the new name of the one state of the
\* definition that has start = true, wherever it stands and whatever it was
\* called, accept is the accept flag of that state, and is_min is false.
C30_AfterConstruction ==
    (op.name = "new" /\ err = NoError) =>
        LET d == op.args
            first == CHOOSE i \in DOMAIN d : d[i].row.start
        IN  /\ Len(fsa) = Len(d)
            /\ Keys(fsa) = {SName(i - 1) : i \in DOMAIN d}
            /\ Cardinality({i \in DOMAIN d : d[i].row.start}) = 1
            /\ state = name_mapping(d)[d[first].name]
            /\ state \in Keys(fsa)
            /\ Row(fsa, state) = MapRow(d[first].row, name_mapping(d))
            /\ accept = d[first].row.accept
            /\ is_min = FALSE

\* an automaton was constructed from a definition whose start state is not
\* its first state, accepts, and had another name than it has now
C30_Witness ==
    /\ op.name = "new"
    /\ err = NoError
    /\ \E i \in DOMAIN op.args :
          /\ i > 1
          /\ op.args[i].row.start
          /\ op.args[i].row.accept
          /\ op.args[i].name # state
    /\ accept

\* a table in which every target is a single state
DFAShaped(f) ==
    \A i \in DOMAIN f : \A k \in DOMAIN f[i].row.trans : ~f[i].row.trans[k].tgt.list

\* the strings a label joins
RECURSIVE split(_, _)
split(text, sep) ==
    IF \E k \in 1..(Len(text) - Len(sep) + 1) : SubSeq(text, k, k + Len(sep) - 1) = sep
    THEN LET k == Min({j \in 1..(Len(text) - Len(sep) + 1) :
                          SubSeq(text, j, j + Len(sep) - 1) = sep})
         IN  <<SubSeq(text, 1, k - 1)>> \o split(SubSeq(text, k + Len(sep), Len(text)), sep)
    ELSE <<text>>

\* C31: minimize_arrows returns, for every state of a table with single
\* targets, a row with the state's start and accept flags in which every
\* symbol of the state's row occurs in exactly one label, the label leads
\* where the symbol led, the symbols with one target share one label, and
\* each label lists its symbols in sorted order, joined by commas; the
\* automaton is as it was.
C31_ArrowLabels ==
    (op.name = "arrows" /\ DFAShaped(pre.fsa)) =>
        /\ err = NoError
        /\ fsa = pre.fsa /\ state = pre.state /\ accept = pre.accept /\ is_min = pre.is_min
        /\ Len(result) = Len(fsa)
        /\ \A i \in DOMAIN fsa :
              LET row == fsa[i].row
                  out == result[i].row
                  sep == separator(op.args[1])
                  parts(e) == split(e.sym.s, sep)
                  holds(e, symbol) == \E k \in DOMAIN parts(e) : parts(e)[k] = str(symbol)
              IN  /\ result[i].name = fsa[i].name
                  /\ out.start = row.start
                  /\ out.accept = row.accept
                  /\ \A symbol \in Symbols(row) :
                        /\ Cardinality({k \in DOMAIN out.trans : holds(out.trans[k], symbol)}) = 1
                        /\ \A k \in DOMAIN out.trans :
                              holds(out.trans[k], symbol) =>
                                  out.trans[k].tgt = Target(row, symbol)
                  /\ \A k \in DOMAIN out.trans :
                        /\ Len(parts(out.trans[k])) =
                              Cardinality({y \in Symbols(row) :
                                              Target(row, y) = out.trans[k].tgt})
                        /\ \A a, b \in DOMAIN parts(out.trans[k]) :
                              a < b =>
                                  \E x, y \in Symbols(row) :
                                      /\ Target(row, x) = out.trans[k].tgt
                                      /\ Target(row, y) = out.trans[k].tgt
                                      /\ str(x) = parts(out.trans[k])[a]
                                      /\ str(y) = parts(out.trans[k])[b]
                                      /\ x.t = y.t
                                      /\ SymbolLess(x, y)

\* the table and the classes minimize() computes for table f with current
\* state s, lines 486-502
Partition(f, s) ==
    LET pruned == remove_unreachable_states(f, s)
        normal == _normalize(pruned.fsa, s)
        num_states == Len(normal.fsa)
        table == _initialize_minimization_table(num_states, accepting_states(normal.fsa))
        filled == _fill_minimization_table(normal.fsa, table, num_states)
    IN  [ok |-> pruned.err = NoError /\ normal.err = NoError,
         fsa |-> normal.fsa,
         num_states |-> num_states,
         initial |-> table,
         filled |-> filled,
         groups |-> _find_equivalent_states(filled.table, num_states)]

\* C32: on a DFA whose rows all define the same symbols, the filled table's
\* relation "pair is unmarked" is symmetric and transitive, and the classes
\* gathered from it are pairwise disjoint and cover every state.
C32_UnmarkedIsEquivalence ==
    (op.name = "minimize" /\ ~pre.is_min) =>
        LET P == Partition(pre.fsa, pre.state)
            N == 0..(P.num_states - 1)
            t == P.filled.table
        IN  (P.ok /\ SameSymbolDFA(P.fsa)) =>
                /\ P.filled.err = NoError
                /\ \A i, j \in N : t[i][j] = 0 => t[j][i] = 0
                /\ \A i, j, k \in N : (t[i][j] = 0 /\ t[j][k] = 0) => t[i][k] = 0
                /\ \A a, b \in DOMAIN P.groups :
                      a # b => P.groups[a] \cap P.groups[b] = {}
                /\ UNION {P.groups[a] : a \in DOMAIN P.groups} = N

\* a minimize whose table needed a pass of marking and left a class of two
\* states next to another class
C32_Witness ==
    /\ op.name = "minimize"
    /\ ~pre.is_min
    /\ LET P == Partition(pre.fsa, pre.state)
       IN  /\ P.ok
           /\ SameSymbolDFA(P.fsa)
           /\ P.filled.err = NoError
           /\ P.filled.table # P.initial
           /\ Len(P.groups) >= 2
           /\ \E a \in DOMAIN P.groups : Cardinality(P.groups[a]) >= 2

\* some input sequence over the symbols of f, no longer than f has states,
\* ends in an accepting state from one of a, b and not from the other
Distinguished(f, a, b) ==
    \E w \in SeqsUpTo(UNION {Symbols(f[i].row) : i \in DOMAIN f}, Len(f)) :
        Call(f, a, FALSE, w).accept # Call(f, b, FALSE, w).accept

\* C33: when minimize() returns normally on a freshly constructed DFA with
\* one start state whose rows all define the same symbols, the result
\* accepts the same input sequences, every state of it is reachable from
\* its start state, and any two different states of it are told apart by
\* some input sequence.
C33_MinimalDFA ==
    (/\ calls = 1
     /\ op.name = "minimize"
     /\ err = NoError
     /\ SameSymbolDFA(pre.fsa)
     /\ Cardinality(StartNames(pre.fsa)) = 1) =>
        /\ StartNames(fsa) = {state}
        /\ ReachableFrom(fsa, StartNames(fsa)) = Keys(fsa)
        /\ \A a, b \in Keys(fsa) : a # b => Distinguished(fsa, a, b)
        /\ \A w \in Words(pre.fsa) :
              Call(fsa, state, accept, w).accept
                  = Call(pre.fsa, pre.state, pre.accept, w).accept

\* the Malta automaton minimized: S3 is gone and three states remain
C33_Witness ==
    /\ calls = 1
    /\ op.name = "minimize"
    /\ err = NoError
    /\ pre.fsa = Malta
    /\ Len(fsa) = 3
    /\ SName(3) \notin Keys(fsa)

\* a minimize() that follows one simulation that returned normally, on a DFA
\* with one start state whose rows all define the same symbols
MinimizeAfterCall ==
    /\ calls = 1
    /\ op.name = "call"
    /\ err = NoError
    /\ op'.name = "minimize"
    /\ SameSymbolDFA(fsa)
    /\ Cardinality(StartNames(fsa)) = 1

C34_Step ==
    MinimizeAfterCall =>
        /\ err' = NoError
        /\ \A w2 \in Words(fsa) :
              LET minimized == Call(fsa', state', accept', w2)
                  unminimized == Call(fsa, state, accept, w2)
              IN  /\ minimized.err = NoError
                  /\ minimized.accept = unminimized.accept

\* C34: simulating w1, calling minimize() and simulating w2 returns normally
\* at every step and ends with the accept flag that simulating w1 and then
\* w2 gives without the minimize().
C34_MinimizeMidRun == [][C34_Step]_vars

\* C35: after operations that all returned normally, the current state is a
\* key of the table.
C35_StateIsKey == returned => state \in Keys(fsa)

\* a minimize() after a simulation, which dropped the start state and gave
\* the current state another name
C35_Witness ==
    /\ returned
    /\ calls = 2
    /\ pre.op = "call"
    /\ op.name = "minimize"
    /\ Len(fsa) < Len(pre.fsa)
    /\ state # pre.state
    /\ state \in Keys(fsa)

\* C36: a call in which the symbol start or accept is reached raises
\* InvalidTransition for the state reached and that symbol, and the current
\* state is then a key of the table.
C36_ReservedNamesUndefined ==
    op.name = "call" =>
        \A i \in DOMAIN Word :
            LET p == Call(pre.fsa, pre.state, pre.accept, Before(i))
            IN  (p.err = NoError /\ Word[i] \in ReservedSymbols)
                => /\ err = InvalidTransitionError(p.state, str(Word[i]))
                   /\ state \in Keys(fsa)

\* a pass of the table fill: no mark is cleared, and when the loop goes on
\* to another pass some pair that was unmarked is marked
PassMarks ==
    (frame.pc = "fill" /\ frame'.pc \in {"fill", "merge"}) =>
        LET N == 0..(Len(fsa) - 1)
        IN  /\ \A i, j \in N : frame.table[i][j] = 1 => frame'.table[i][j] = 1
            /\ frame'.pc = "fill" =>
                  \E i, j \in N : frame.table[i][j] = 0 /\ frame'.table[i][j] = 1

\* no state is visited twice by the search
VisitedOnce ==
    frame.pc = "bfs" =>
        \A a, b \in DOMAIN frame.visited : a # b => frame.visited[a] # frame.visited[b]

\* the steps end as minimize() does
EndsAsMinimize ==
    (op.name = "minimize" /\ frame.pc = "none") =>
        [fsa |-> fsa, state |-> state, is_min |-> is_min, err |-> err]
            = minimize(pre.fsa, pre.state, pre.is_min)

\* C37: a minimize() that is running ends, by returning or raising; every
\* pass of the table fill after which the loop goes on marks a pair that was
\* unmarked, and no pass clears a mark; the search of
\* remove_unreachable_states visits no state twice; and the loops leave
\* what minimize() leaves.
C37_MinimizeTerminates ==
    /\ (frame.pc # "none") ~> (frame.pc = "none")
    /\ [][PassMarks /\ VisitedOnce']_vars
    /\ []EndsAsMinimize

\* the table fill about to start a third pass, after two passes that each
\* marked a pair
C37_Witness ==
    /\ frame.pc = "fill"
    /\ Len(frame.visited) >= 3
    /\ LET n == Len(fsa)
           first == _initialize_minimization_table(n, accepting_states(fsa))
           second == fill_pass(fsa, first, n).table
       IN  /\ second # first
           /\ frame.table # first
           /\ frame.table # second

====
